---------------------------- MODULE Spec2Model ----------------------------
(***************************************************************************)
(* A model of the scout_apm_node instrumentation runtime:                  *)
(*   - the layered configuration resolver (src/lib/types/config.ts),       *)
(*   - the platform-triple detector (src/lib/types/config.ts),             *)
(*   - the Scout engine's setup / transaction / shutdown machinery         *)
(*     (src/unnamed/part_000).                                             *)
(*                                                                         *)
(* Strings whose characters matter (prefix tests, splitting, template      *)
(* interpolation) are sequences of one-character strings.  JavaScript      *)
(* values are records [t, s, b]: t is the JavaScript type tag, s the       *)
(* characters of a string, b the value of a boolean.                       *)
(***************************************************************************)
EXTENDS Integers, Sequences, FiniteSets, TLC

VARIABLES
    \* ---- configuration resolver ----
    env,        \* process.env as seen by EnvConfigSource: env var name -> value
    node,       \* NodeConfigSource.config: property -> value
    hasLogFn,   \* whether DerivedConfigSource was given a logFn
    host,       \* what os.arch(), os.platform() and detect-libc report
    cfgOp,      \* the last resolver operation and what it returned
    setsDone,   \* number of set() calls made so far
    \* ---- platform detector ----
    tripleOp,   \* the last detector call and what it returned
    generated,  \* every triple generateTriple() has returned on this host
    \* ---- Scout engine ----
    config,     \* this.config, the fields the engine branches on
    agent,      \* this.agent: "undefined", "present" or "null"
    connected,  \* whether the agent's socket is open
    settingUp,  \* this.settingUp: "unset", or the promise's state
    setupPc,    \* where the promise chain built by setup() stands
    setupErr,   \* the error the setup chain rejects with
    connectResult, \* how agent.connect() ended: "none", "ok" or "failed"
    downloads,  \* downloader.download() calls made
    spawned,    \* agent.start() calls made: core-agent processes spawned
    connects,   \* agent.connect() calls made
    sent,       \* the messages handed to agent.send(), in order
    handlers,   \* uncaughtException listeners this engine has registered
    globalSet,  \* whether this engine is the process-global active instance
    statsHandle,\* this.statsSendingInterval is set
    statsActive,\* the statistics timer is running
    calls,      \* one record per setup() call: what it returned, and when
    txs,        \* one record per transaction() call
    shuts,      \* one record per shutdown() call
    disconnects,\* agent.disconnect() calls made
    stops,      \* agent.stopProcess() calls made
    shutdownEvents, \* ScoutEvent.Shutdown emissions
    \* ---- Scout engine: calls recorded for single operations ----
    nbCalls,    \* one record per setupNonBlocking() call
    ignore,     \* config.ignore: whether it is given, and its prefixes
    ignoreOp,   \* the last ignoresPath() call and what it did
    sendOp,     \* the last call of a send helper (sendStartRequest, ...) and what it did
    reqs,       \* the requests started by transaction(), with their spans and tags
    ticks,      \* runs of the statistics timer's callback
    timersCreated, \* setInterval() calls made by startSendingStatistics()
    endpointCfg, \* the configuration object an engine was given, for its socket path
    endpointOp, \* the last reading of the engine's socket path and socket type
    \* ---- Scout engine: the current request and span ----
    frames,     \* the contexts of the async namespace: parent context, own request and span entries
    spans,      \* the spans started by instrument() and instrumentSync()
    ctxReqs,    \* the requests started by transaction(), instrument() and transactionSync()
    syncCurrentRequest, \* this.syncCurrentRequest: a request id, or 0 for null
    syncCurrentSpan,    \* this.syncCurrentSpan: a span id, or 0 for null
    syncStack,  \* the instrumentSync()/transactionSync() calls that have not returned, outermost first
    ctxOp       \* the last transaction(), instrument() or instrumentSync() call and what it started

cfgVars == <<env, node, hasLogFn, host, cfgOp, setsDone>>
tripleVars == <<tripleOp, generated>>
setupVars ==
    <<agent, connected, settingUp, setupPc, setupErr, connectResult, downloads,
      spawned, connects, sent, handlers, globalSet, statsHandle, statsActive>>
engineVars == <<config, setupVars, calls, txs, shuts, disconnects, stops, shutdownEvents>>
nbVars == <<nbCalls>>
ignoreVars == <<ignore, ignoreOp>>
sendVars == <<sendOp>>
wireVars == <<reqs, ticks>>
statsVars == <<timersCreated>>
endpointVars == <<endpointCfg, endpointOp>>
ctxVars == <<frames, spans, ctxReqs, syncCurrentRequest, syncCurrentSpan, syncStack, ctxOp>>
traceVars == <<nbVars, ignoreVars, sendVars, wireVars, statsVars, endpointVars, ctxVars>>
\* the variables of the other operations, as seen from each group
tracesBesideNb == <<ignoreVars, sendVars, wireVars, statsVars, endpointVars, ctxVars>>
tracesBesideIgnore == <<nbVars, sendVars, wireVars, statsVars, endpointVars, ctxVars>>
tracesBesideSend == <<nbVars, ignoreVars, wireVars, statsVars, endpointVars, ctxVars>>
tracesBesideWire == <<nbVars, ignoreVars, sendVars, statsVars, endpointVars, ctxVars>>
tracesBesideRequests == <<nbVars, ignoreVars, statsVars, endpointVars, ctxVars>>
tracesBesideStats == <<nbVars, ignoreVars, sendVars, wireVars, endpointVars, ctxVars>>
tracesBesideEndpoint == <<nbVars, ignoreVars, sendVars, wireVars, statsVars, ctxVars>>
tracesBesideCtx == <<nbVars, ignoreVars, sendVars, wireVars, statsVars, endpointVars>>
vars == <<cfgVars, tripleVars, engineVars, traceVars>>

-----------------------------------------------------------------------------
(* Bounds of the model *)

\* set() calls explored per run
MaxSets == 1
\* call-stack budget given to a get(): nested get() calls beyond it are cut off
MaxGetDepth == 4
\* setup() calls explored per run, those made by transaction() included
MaxSetupCalls == 2
\* transaction() calls explored per run
MaxTxs == 1
\* shutdown() calls explored per run
MaxShutdowns == 1
\* setupNonBlocking() calls explored per run
MaxNonBlocking == 1
\* callers of shutdown() explored per run where several callers are at issue
MaxShutdownCallers == 2
\* done() calls explored per request
MaxDoneCalls == 2
\* runs of the statistics timer's callback explored per run
MaxTicks == 2
\* longest path given to ignoresPath(), in characters
MaxPathLen == 2
\* longest config.ignore list given by the embedding program
MaxIgnoreLen == 2

-----------------------------------------------------------------------------
(* JavaScript values *)

Str(s) == [t |-> "string", s |-> s, b |-> FALSE]
Bool(b) == [t |-> "boolean", s |-> <<>>, b |-> b]
Undefined == [t |-> "undefined", s |-> <<>>, b |-> FALSE]
Null == [t |-> "null", s |-> <<>>, b |-> FALSE]
\* a get() that ran out of call stack
Diverged == [t |-> "diverged", s |-> <<>>, b |-> FALSE]

\* JavaScript truthiness of a value
Truthy(v) ==
    CASE v.t = "string" -> v.s # <<>>
      [] v.t = "boolean" -> v.b
      [] OTHER -> FALSE

\* the characters a value contributes to a template string `${v}`
ToStr(v) ==
    CASE v.t = "string" -> v.s
      [] v.t = "boolean" -> IF v.b THEN <<"t","r","u","e">> ELSE <<"f","a","l","s","e">>
      [] v.t = "null" -> <<"n","u","l","l">>
      [] OTHER -> <<"u","n","d","e","f","i","n","e","d">>

StartsWith(s, pre) == Len(s) >= Len(pre) /\ SubSeq(s, 1, Len(pre)) = pre
EndsWith(s, suf) == Len(s) >= Len(suf) /\ SubSeq(s, Len(s) - Len(suf) + 1, Len(s)) = suf

Max2(a, b) == IF a >= b THEN a ELSE b

-----------------------------------------------------------------------------
(* String constants of the program *)

\* Constants.DEFAULT_CORE_AGENT_NAME
DEFAULT_CORE_AGENT_NAME == <<"s","c","o","u","t","_","a","p","m","_","c","o","r","e">>
\* Constants.DEFAULT_SOCKET_FILE_NAME
DEFAULT_SOCKET_FILE_NAME == <<"c","o","r","e","-","a","g","e","n","t",".","s","o","c","k">>
\* DEFAULT_SCOUT_CONFIGURATION.coreAgentVersion
DEFAULT_CORE_AGENT_VERSION == <<"v","1",".","2",".","7">>

\* enum Architecture
ArchX86_64 == <<"x","8","6","_","6","4">>
ArchI686 == <<"i","6","8","6">>
ArchUnknown == <<"u","n","k","n","o","w","n">>
Architecture == {ArchX86_64, ArchI686, ArchUnknown}

\* enum Platform
PlatformLinuxGNU == <<"l","i","n","u","x","-","g","n","u">>
PlatformLinuxMusl == <<"l","i","n","u","x","-","m","u","s","l">>
PlatformDarwin == <<"d","a","r","w","i","n">>
PlatformUnknown == <<"u","n","k","n","o","w","n">>
Platform == {PlatformLinuxGNU, PlatformLinuxMusl, PlatformDarwin, PlatformUnknown}

Dash == <<"-">>
Slash == <<"/">>

\* enum PlatformTriple: the triples an agent binary exists for
PlatformTriple ==
    { a \o Dash \o p : a \in {ArchX86_64, ArchI686},
                       p \in {PlatformLinuxGNU, PlatformLinuxMusl, PlatformDarwin} }

-----------------------------------------------------------------------------
(* Platform detector *)

\* what the host can report: os.arch(), os.platform(), detect-libc's isNonGlibcLinux
HostArchs == {"x64", "x32", "ia32", "arm", "arm64"}
HostPlatforms == {"linux", "darwin", "win32", "freebsd"}
AllHosts == [arch : HostArchs, platform : HostPlatforms, nonGlibc : BOOLEAN]

detectArch(h) ==
    CASE h.arch = "x64" -> ArchX86_64
      [] h.arch = "x32" -> ArchI686
      [] OTHER -> ArchUnknown

\* a detector that passes an unrecognised platform name through
detectPlatform_PassThrough(h) ==
    CASE h.platform = "linux" -> IF h.nonGlibc THEN PlatformLinuxMusl ELSE PlatformLinuxGNU
      [] h.platform = "darwin" -> PlatformDarwin
      [] OTHER -> <<"o","t","h","e","r">>

detectPlatform(h) ==
    CASE h.platform = "linux" -> IF h.nonGlibc THEN PlatformLinuxMusl ELSE PlatformLinuxGNU
      [] h.platform = "darwin" -> PlatformDarwin
      [] OTHER -> PlatformUnknown

generateTriple(h) == detectArch(h) \o Dash \o detectPlatform(h)

\* detectPlatformTriple(): the generated triple, or the Error it throws
detectPlatformTriple(h) ==
    LET triple == generateTriple(h)
    IN  IF triple \notin PlatformTriple
        THEN [threw |-> TRUE, triple |-> <<>>]
        ELSE [threw |-> FALSE, triple |-> triple]

\* index of the first "-" of s, 0 when there is none
FirstDash(s) ==
    IF \E i \in 1..Len(s) : s[i] = "-"
    THEN CHOOSE i \in 1..Len(s) : s[i] = "-" /\ \A j \in 1..(i - 1) : s[j] # "-"
    ELSE 0

\* const [arch, ...platformPieces] = triple.split("-")
TripleArch(s) == IF FirstDash(s) = 0 THEN s ELSE SubSeq(s, 1, FirstDash(s) - 1)
\* platformPieces.join("-")
TriplePlatform(s) == IF FirstDash(s) = 0 THEN <<>> ELSE SubSeq(s, FirstDash(s) + 1, Len(s))

isValidTriple(v) ==
    IF ~Truthy(v) THEN FALSE
    ELSE TripleArch(v.s) \in Architecture /\ TriplePlatform(v.s) \in Platform

-----------------------------------------------------------------------------
(* Configuration resolver *)

\* the properties of ScoutConfiguration the model follows
Props ==
    { "socketPath", "coreAgentFullName", "coreAgentTriple", "coreAgentVersion",
      "coreAgentDir", "monitor", "hostname", "logFilePath" }

\* convertCamelCaseToEnvVar(prop): UPPER_SNAKE with the SCOUT_ prefix
convertCamelCaseToEnvVar(prop) ==
    CASE prop = "socketPath" -> "SCOUT_SOCKET_PATH"
      [] prop = "coreAgentFullName" -> "SCOUT_CORE_AGENT_FULL_NAME"
      [] prop = "coreAgentTriple" -> "SCOUT_CORE_AGENT_TRIPLE"
      [] prop = "coreAgentVersion" -> "SCOUT_CORE_AGENT_VERSION"
      [] prop = "coreAgentDir" -> "SCOUT_CORE_AGENT_DIR"
      [] prop = "monitor" -> "SCOUT_MONITOR"
      [] prop = "hostname" -> "SCOUT_HOSTNAME"
      [] prop = "logFilePath" -> "SCOUT_LOG_FILE_PATH"

EnvVarNames == { convertCamelCaseToEnvVar(p) : p \in Props }

\* String.prototype.toLowerCase on the letters the inputs use
LowerChar(c) ==
    CASE c = "T" -> "t" [] c = "R" -> "r" [] c = "U" -> "u" [] c = "E" -> "e"
      [] c = "N" -> "n" [] c = "O" -> "o" [] OTHER -> c
toLowerCase(s) == [i \in 1..Len(s) |-> LowerChar(s[i])]

\* ENV_TRANSFORMS: the env vars of the model that have a parser
ENV_TRANSFORMS_KEYS == {"SCOUT_MONITOR"}
ENV_TRANSFORMS(envVar, v) ==
    CASE envVar = "SCOUT_MONITOR" -> Bool(toLowerCase(v.s) = <<"t","r","u","e">>)
      [] OTHER -> v

\* DEFAULT_SCOUT_CONFIGURATION[prop]
DEFAULT_SCOUT_CONFIGURATION(prop) ==
    CASE prop = "coreAgentDir" -> Str(<<>>)
      [] prop = "coreAgentVersion" -> Str(DEFAULT_CORE_AGENT_VERSION)
      [] prop = "hostname" -> Null
      [] prop = "monitor" -> Bool(FALSE)
      [] OTHER -> Undefined

\* DefaultConfigSource.getConfigValue
DefaultGetConfigValue(prop) == DEFAULT_SCOUT_CONFIGURATION(prop)

\* EnvConfigSource.getConfigValue
EnvGetConfigValue(prop) ==
    LET envVar == convertCamelCaseToEnvVar(prop)
        val == env[envVar]
    IN  IF val # Undefined /\ envVar \in ENV_TRANSFORMS_KEYS
        THEN ENV_TRANSFORMS(envVar, val)
        ELSE val

\* NodeConfigSource.getConfigValue on the node configuration n
NodeGetConfigValue(n, prop) == n[prop]

\* a setConfigValue that replaces the whole node configuration
NodeSetConfigValue_Replace(n, prop, value) ==
    [q \in Props |-> IF q = prop THEN value ELSE Undefined]

\* NodeConfigSource.setConfigValue: the node configuration after the write
NodeSetConfigValue(n, prop, value) == [n EXCEPT ![prop] = value]

\* setConfigValue of the Default, Env and Derived sources
ReadOnlySetConfigValue == "NotSupported"

\* what a get() yields: the value, how deep the nested get() calls went below it,
\* and how many warnings the Derived source logged on the way
Ret(v, d, w) == [val |-> v, depth |-> d, warns |-> w]

\* `${DEFAULT_CORE_AGENT_NAME}-${coreAgentVersion}-${coreAgentTriple}` without the version
FullNameTemplate_NoVersion(version, triple) ==
    DEFAULT_CORE_AGENT_NAME \o Dash \o ToStr(triple)

\* `${Constants.DEFAULT_CORE_AGENT_NAME}-${coreAgentVersion}-${coreAgentTriple}`
FullNameTemplate(version, triple) ==
    DEFAULT_CORE_AGENT_NAME \o Dash \o ToStr(version) \o Dash \o ToStr(triple)

\* `${coreAgentDir}/${coreAgentFullName}/${Constants.DEFAULT_SOCKET_FILE_NAME}`
SocketPathTemplate(dir, fullName) ==
    ToStr(dir) \o Slash \o ToStr(fullName) \o Slash \o DEFAULT_SOCKET_FILE_NAME

RECURSIVE ProxyGetFrom(_, _, _, _)
RECURSIVE DerivedGetConfigValue(_, _, _)

\* a Derived source whose coreAgentTriple rule consults coreAgentFullName
DerivedGetConfigValue_Loop(n, prop, fuel) ==
    CASE prop = "socketPath" ->
            IF fuel = 0 THEN Ret(Diverged, 0, 0)
            ELSE LET dir == ProxyGetFrom(n, 1, "coreAgentDir", fuel - 1)
                     full == ProxyGetFrom(n, 1, "coreAgentFullName", fuel - 1)
                 IN  IF dir.val = Diverged \/ full.val = Diverged
                     THEN Ret(Diverged, 1 + Max2(dir.depth, full.depth), dir.warns + full.warns)
                     ELSE Ret(Str(SocketPathTemplate(dir.val, full.val)),
                              1 + Max2(dir.depth, full.depth), dir.warns + full.warns)
      [] prop = "coreAgentFullName" ->
            IF fuel = 0 THEN Ret(Diverged, 0, 0)
            ELSE LET triple == ProxyGetFrom(n, 1, "coreAgentTriple", fuel - 1)
                     version == ProxyGetFrom(n, 1, "coreAgentVersion", fuel - 1)
                 IN  IF triple.val = Diverged \/ version.val = Diverged
                     THEN Ret(Diverged, 1 + Max2(triple.depth, version.depth), 0)
                     ELSE Ret(Str(FullNameTemplate(version.val, triple.val)),
                              1 + Max2(triple.depth, version.depth), 0)
      [] prop = "coreAgentTriple" ->
            IF fuel = 0 THEN Ret(Diverged, 0, 0)
            ELSE LET full == ProxyGetFrom(n, 1, "coreAgentFullName", fuel - 1)
                 IN  IF full.val = Diverged THEN Ret(Diverged, 1 + full.depth, 0)
                     ELSE Ret(Str(generateTriple(host)), 1 + full.depth, 0)
      [] OTHER -> Ret(Undefined, 0, 0)

\* DerivedConfigSource.getConfigValue(prop, p); a nested p.get() takes one unit
\* of the call-stack budget `fuel`
DerivedGetConfigValue(n, prop, fuel) ==
    CASE prop = "socketPath" ->
            IF fuel = 0 THEN Ret(Diverged, 0, 0)
            ELSE LET dir == ProxyGetFrom(n, 1, "coreAgentDir", fuel - 1)
                     full == ProxyGetFrom(n, 1, "coreAgentFullName", fuel - 1)
                 IN  IF dir.val = Diverged \/ full.val = Diverged
                     THEN Ret(Diverged, 1 + Max2(dir.depth, full.depth), dir.warns + full.warns)
                     ELSE Ret(Str(SocketPathTemplate(dir.val, full.val)),
                              1 + Max2(dir.depth, full.depth), dir.warns + full.warns)
      [] prop = "coreAgentFullName" ->
            IF fuel = 0 THEN Ret(Diverged, 0, 0)
            ELSE LET triple == ProxyGetFrom(n, 1, "coreAgentTriple", fuel - 1)
                     warned == IF ~isValidTriple(triple.val) /\ hasLogFn THEN 1 ELSE 0
                     version == ProxyGetFrom(n, 1, "coreAgentVersion", fuel - 1)
                 IN  IF triple.val = Diverged \/ version.val = Diverged
                     THEN Ret(Diverged, 1 + Max2(triple.depth, version.depth), 0)
                     ELSE Ret(Str(FullNameTemplate(version.val, triple.val)),
                              1 + Max2(triple.depth, version.depth),
                              triple.warns + warned + version.warns)
      [] prop = "coreAgentTriple" -> Ret(Str(generateTriple(host)), 0, 0)
      [] OTHER -> Ret(Undefined, 0, 0)

\* this.sources: [Env, Node, Derived, Default]
SourceNames == <<"Env", "Node", "Derived", "Default">>

\* sources[i].getConfigValue(prop, this)
SourceGetConfigValue(n, i, prop, fuel) ==
    CASE i = 1 -> Ret(EnvGetConfigValue(prop), 0, 0)
      [] i = 2 -> Ret(NodeGetConfigValue(n, prop), 0, 0)
      [] i = 3 -> DerivedGetConfigValue(n, prop, fuel)
      [] i = 4 -> Ret(DefaultGetConfigValue(prop), 0, 0)

\* a get() loop that skips every falsy value, not only undefined
ProxyGetFrom_Truthy(n, i, prop, fuel) ==
    IF i > Len(SourceNames) THEN Ret(Undefined, 0, 0)
    ELSE LET r == SourceGetConfigValue(n, i, prop, fuel)
         IN  IF Truthy(r.val) \/ r.val = Diverged THEN r
             ELSE ProxyGetFrom(n, i + 1, prop, fuel)

\* ScoutConfigurationProxy.get: the loop over this.sources, from source i on
ProxyGetFrom(n, i, prop, fuel) ==
    IF i > Len(SourceNames) THEN Ret(Undefined, 0, 0)
    ELSE LET r == SourceGetConfigValue(n, i, prop, fuel)
         IN  IF r.val # Undefined THEN r
             ELSE ProxyGetFrom(n, i + 1, prop, fuel)

\* ScoutConfigurationProxy.get(obj, prop) on the node configuration n
ProxyGet(n, prop) == ProxyGetFrom(n, 1, prop, MaxGetDepth)

-----------------------------------------------------------------------------
(* Inputs of the resolver *)

EmptyEnv == [e \in EnvVarNames |-> Undefined]
EmptyNode == [q \in Props |-> Undefined]

\* values an environment variable is given (always strings)
EnvCandidates ==
    { <<"SCOUT_SOCKET_PATH", Str(<<"/","e",".","s">>)>>,
      <<"SCOUT_CORE_AGENT_FULL_NAME", Str(<<"E">>)>>,
      <<"SCOUT_CORE_AGENT_TRIPLE", Str(<<"x","-","y">>)>>,
      <<"SCOUT_CORE_AGENT_VERSION", Str(<<"v","2",".","0">>)>>,
      <<"SCOUT_CORE_AGENT_VERSION", Str(<<>>)>>,
      <<"SCOUT_CORE_AGENT_DIR", Str(<<"/","e">>)>>,
      <<"SCOUT_MONITOR", Str(<<"T","r","u","e">>)>>,
      <<"SCOUT_MONITOR", Str(<<"n","o">>)>>,
      <<"SCOUT_HOSTNAME", Str(<<>>)>>,
      <<"SCOUT_LOG_FILE_PATH", Str(<<"e",".","l","o","g">>)>> }

\* the environments explored: empty, or one variable set
EnvChoices == {EmptyEnv} \cup { [EmptyEnv EXCEPT ![c[1]] = c[2]] : c \in EnvCandidates }

\* values the embedding program writes to a property
NodeVals(prop) ==
    {Undefined} \cup
    CASE prop = "socketPath" -> {Str(<<"/","n",".","s">>)}
      [] prop = "coreAgentFullName" -> {Str(<<"N">>)}
      [] prop = "coreAgentTriple" -> {Str(<<"i","6","8","6","-","d","a","r","w","i","n">>), Str(<<"b","a","d">>)}
      [] prop = "coreAgentVersion" -> {Str(<<"v","1",".","9">>), Str(<<"1",".","3">>)}
      [] prop = "coreAgentDir" -> {Str(<<"/","n">>), Str(<<>>)}
      [] prop = "monitor" -> {Bool(TRUE), Bool(FALSE)}
      [] prop = "hostname" -> {Null, Str(<<"n">>)}
      [] prop = "logFilePath" -> {Str(<<"s","t","d","o","u","t">>)}

\* the initialNodeConfig objects the proxy is constructed with
InitNodeChoices ==
    { EmptyNode,
      [EmptyNode EXCEPT !["coreAgentVersion"] = Str(<<"1",".","3">>), !["hostname"] = Str(<<"n">>)],
      [EmptyNode EXCEPT !["coreAgentDir"] = Str(<<"/","n">>), !["monitor"] = Bool(TRUE)] }

\* the hosts the resolver is explored on
CfgHosts ==
    { [arch |-> "x64", platform |-> "linux", nonGlibc |-> FALSE],
      [arch |-> "arm", platform |-> "win32", nonGlibc |-> FALSE] }

NoOp ==
    [op |-> "none", prop |-> "", val |-> Undefined, depth |-> 0, warns |-> 0,
     result |-> "", before |-> EmptyNode, envBefore |-> EmptyEnv]

NoTripleOp == [op |-> "none", out |-> <<>>, threw |-> FALSE, valid |-> FALSE]

\* the resolver and the detector before any operation, on a 64-bit glibc Linux host
ResolverIdle ==
    /\ env = EmptyEnv
    /\ node = EmptyNode
    /\ hasLogFn = FALSE
    /\ host = [arch |-> "x64", platform |-> "linux", nonGlibc |-> FALSE]
    /\ cfgOp = NoOp
    /\ setsDone = 0

TripleIdle ==
    /\ tripleOp = NoTripleOp
    /\ generated = {}

-----------------------------------------------------------------------------
(* The Scout engine after construction *)

\* no setupNonBlocking() call has been made
NonBlockingIdle == nbCalls = <<>>

\* config.ignore is not given and ignoresPath() has not been called
NoIgnoreOp == [path |-> <<>>, result |-> FALSE, emits |-> 0, called |-> FALSE]
IgnoreIdle ==
    /\ ignore = [given |-> FALSE, list |-> <<>>]
    /\ ignoreOp = NoIgnoreOp

\* no send helper has been called
NoSendOp ==
    [kind |-> "none", req |-> "", ignored |-> FALSE, agentAt |-> "undefined",
     via |-> "", handed |-> FALSE, outcome |-> "", skipped |-> 0, requestSent |-> 0]
SendIdle == sendOp = NoSendOp

\* no request has been started and the statistics timer has not fired
WireIdle ==
    /\ reqs = <<>>
    /\ ticks = 0

\* nothing is recorded yet for the operations a specification does not exercise
\* no statistics timer has been created
StatsIdle == timersCreated = 0

\* the socket path has not been read; the engine has the resolver as its configuration
NoEndpointCfg == [kind |-> "resolver", socketPath |-> Undefined, version |-> Undefined,
                  assigned |-> FALSE]
NoEndpointOp ==
    [called |-> FALSE, assignedAt |-> FALSE, threw |-> FALSE, path |-> <<>>, type |-> "",
     url |-> <<>>]
EndpointIdle ==
    /\ endpointCfg = NoEndpointCfg
    /\ endpointOp = NoEndpointOp

\* no transaction or instrumentation has been started
NoCtxOp ==
    [op |-> "none", frame |-> 0, override |-> 0, syncSpanAt |-> 0, syncReqAt |-> 0,
     spanAt |-> 0, reqAt |-> 0, parentKind |-> "none", parent |-> 0, newReqs |-> {},
     newSpans |-> {}, fnRuns |-> 0, tagged |-> 0, rethrown |-> FALSE]
CtxIdle ==
    /\ frames = <<>>
    /\ spans = <<>>
    /\ ctxReqs = <<>>
    /\ syncCurrentRequest = 0
    /\ syncCurrentSpan = 0
    /\ syncStack = <<>>
    /\ ctxOp = NoCtxOp

TraceIdle ==
    /\ NonBlockingIdle /\ IgnoreIdle /\ SendIdle /\ WireIdle /\ StatsIdle /\ EndpointIdle
    /\ CtxIdle

\* the configurations an engine is constructed with: whether the agent is to be
\* launched, whether sending is enabled, whether config.socketPath and
\* config.coreAgentVersion are truthy, whether the agent may be stopped
\* config.socketPath is only read in attach mode and config.coreAgentVersion only
\* in launch mode, so each is varied in that mode alone
EngineConfigs ==
    {c \in [coreAgentLaunch : BOOLEAN, monitor : BOOLEAN, hasSocketPath : BOOLEAN,
            hasVersion : BOOLEAN, allowShutdown : BOOLEAN] :
        IF c.coreAgentLaunch THEN c.hasSocketPath ELSE c.hasVersion}

DefaultEngineConfig ==
    [coreAgentLaunch |-> TRUE, monitor |-> FALSE, hasSocketPath |-> TRUE,
     hasVersion |-> TRUE, allowShutdown |-> FALSE]

\* the fields of a Scout right after its constructor
EngineConstructed(c) ==
    /\ config = c
    /\ agent = "undefined"
    /\ connected = FALSE
    /\ settingUp = "unset"
    /\ setupPc = "idle"
    /\ setupErr = ""
    /\ connectResult = "none"
    /\ downloads = 0
    /\ spawned = 0
    /\ connects = 0
    /\ sent = <<>>
    /\ handlers = 0
    /\ globalSet = FALSE
    /\ statsHandle = FALSE
    /\ statsActive = FALSE
    /\ calls = <<>>
    /\ txs = <<>>
    /\ shuts = <<>>
    /\ disconnects = 0
    /\ stops = 0
    /\ shutdownEvents = 0

-----------------------------------------------------------------------------
(* Operations of the resolver *)

\* a read of property prop through the proxy
CfgGet(prop) ==
    LET r == ProxyGet(node, prop)
    IN  /\ cfgOp' = [op |-> "get", prop |-> prop, val |-> r.val, depth |-> r.depth,
                     warns |-> r.warns, result |-> "ok", before |-> node,
                         envBefore |-> env]
        /\ UNCHANGED <<env, node, hasLogFn, host, setsDone, tripleVars, engineVars, traceVars>>

\* index in this.sources of the source that supplies prop, 0 when none does
SupplyingSource(n, prop) ==
    LET defined == { i \in 1..Len(SourceNames) :
                        SourceGetConfigValue(n, i, prop, MaxGetDepth).val # Undefined }
    IN  IF defined = {} THEN 0
        ELSE CHOOSE i \in defined : \A j \in defined : i <= j

\* a set() that refuses a property supplied by the Env, Derived or Default source
ProxySet_RejectReadOnly(prop, value) ==
    /\ setsDone < MaxSets
    /\ setsDone' = setsDone + 1
    /\ IF SupplyingSource(node, prop) \in {1, 3, 4}
       THEN /\ node' = node
            /\ cfgOp' = [op |-> "set", prop |-> prop, val |-> value, depth |-> 0,
                         warns |-> 0, result |-> ReadOnlySetConfigValue, before |-> node,
                         envBefore |-> env]
       ELSE /\ node' = NodeSetConfigValue(node, prop, value)
            /\ cfgOp' = [op |-> "set", prop |-> prop, val |-> value, depth |-> 0,
                         warns |-> 0, result |-> "ok", before |-> node,
                         envBefore |-> env]
    /\ UNCHANGED <<env, hasLogFn, host, tripleVars, engineVars, traceVars>>

\* ScoutConfigurationProxy.set(obj, prop, value)
ProxySet(prop, value) ==
    /\ setsDone < MaxSets
    /\ setsDone' = setsDone + 1
    /\ node' = NodeSetConfigValue(node, prop, value)
    /\ cfgOp' = [op |-> "set", prop |-> prop, val |-> value, depth |-> 0,
                 warns |-> 0, result |-> "ok", before |-> node,
                         envBefore |-> env]
    /\ UNCHANGED <<env, hasLogFn, host, tripleVars, engineVars, traceVars>>

InitConfig ==
    /\ env \in EnvChoices
    /\ node \in InitNodeChoices
    /\ hasLogFn \in BOOLEAN
    /\ host \in CfgHosts
    /\ cfgOp = NoOp
    /\ setsDone = 0
    /\ TripleIdle
    /\ EngineConstructed(DefaultEngineConfig)
    /\ TraceIdle

NextConfig ==
    \/ \E prop \in Props : CfgGet(prop)
    \/ \E prop \in Props : \E value \in NodeVals(prop) : ProxySet(prop, value)

SpecConfig == InitConfig /\ [][NextConfig]_vars

-----------------------------------------------------------------------------
(* Operations of the platform detector *)

GenerateTriple ==
    /\ tripleOp' = [op |-> "generateTriple", out |-> generateTriple(host),
                    threw |-> FALSE, valid |-> FALSE]
    /\ generated' = generated \cup {generateTriple(host)}
    /\ UNCHANGED <<cfgVars, engineVars, traceVars>>

DetectPlatformTriple ==
    LET r == detectPlatformTriple(host)
    IN  /\ tripleOp' = [op |-> "detectPlatformTriple", out |-> r.triple,
                        threw |-> r.threw, valid |-> FALSE]
        /\ generated' = generated \cup {generateTriple(host)}
        /\ UNCHANGED <<cfgVars, engineVars, traceVars>>

\* isValidTriple applied to a triple generated earlier
ValidateTriple ==
    /\ \E t \in generated :
          tripleOp' = [op |-> "isValidTriple", out |-> t, threw |-> FALSE,
                       valid |-> isValidTriple(Str(t))]
    /\ UNCHANGED <<generated, cfgVars, engineVars, traceVars>>

InitTriple ==
    /\ env = EmptyEnv
    /\ node = EmptyNode
    /\ hasLogFn = FALSE
    /\ host \in AllHosts
    /\ cfgOp = NoOp
    /\ setsDone = 0
    /\ tripleOp = NoTripleOp
    /\ generated = {}
    /\ EngineConstructed(DefaultEngineConfig)
    /\ TraceIdle

NextTriple ==
    \/ GenerateTriple
    \/ DetectPlatformTriple
    \/ ValidateTriple

SpecTriple == InitTriple /\ [][NextTriple]_vars

-----------------------------------------------------------------------------
(* The Scout engine: setup *)

\* the error ExternalProcessAgent.connect() rejects with
AgentConnectError == "ConnectionFailed"

\* what a setup() call returns: "immediate" is Promise.resolve(this), "shared" is
\* this.settingUp, "threw" is the TypeError of the socketPath getter reading
\* this.coreAgentVersion.raw, which only downloadAndLaunchAgent assigns
SetupReturns ==
    IF agent = "present" THEN "immediate"
    ELSE IF settingUp # "unset" THEN "shared"
    ELSE IF ~config.coreAgentLaunch /\ ~config.hasSocketPath THEN "threw"
    ELSE "shared"

CallRec(ret) == [ret |-> ret, settingUpAt |-> settingUp, agentAt |-> agent]

\* a setup() that does not keep this.settingUp: every call without an agent starts
\* a new initialisation
SetupBody_Restart ==
    /\ calls' = Append(calls, CallRec(SetupReturns))
    /\ IF agent = "present"
       THEN UNCHANGED <<settingUp, setupPc, setupErr, downloads>>
       ELSE IF config.coreAgentLaunch
       THEN /\ settingUp' = "pending"
            /\ setupPc' = "downloading"
            /\ setupErr' = setupErr
            /\ downloads' = downloads + 1
       ELSE /\ settingUp' = "pending"
            /\ setupPc' = "probing"
            /\ UNCHANGED <<setupErr, downloads>>

\* the synchronous part of setup(): the early returns, then the start of
\* downloadAndLaunchAgent() or createAgentForExistingSocket() and the
\* assignment of this.settingUp
SetupBody ==
    /\ calls' = Append(calls, CallRec(SetupReturns))
    /\ IF agent = "present" \/ settingUp # "unset"
       THEN UNCHANGED <<settingUp, setupPc, setupErr, downloads>>
       ELSE IF config.coreAgentLaunch
       THEN IF ~config.hasVersion
            THEN /\ settingUp' = "pending"
                 /\ setupPc' = "rejecting"
                 /\ setupErr' = "NoCoreAgentVersion"
                 /\ downloads' = downloads
            ELSE /\ settingUp' = "pending"
                 /\ setupPc' = "downloading"
                 /\ setupErr' = setupErr
                 /\ downloads' = downloads + 1
       ELSE IF ~config.hasSocketPath
            THEN UNCHANGED <<settingUp, setupPc, setupErr, downloads>>
            ELSE /\ settingUp' = "pending"
                 /\ setupPc' = "probing"
                 /\ UNCHANGED <<setupErr, downloads>>

\* a setup() call by the embedding program
Setup ==
    /\ Len(calls) < MaxSetupCalls
    /\ SetupBody
    /\ UNCHANGED <<cfgVars, tripleVars, traceVars, config, agent, connected, connectResult,
                 spawned, connects, sent, handlers, globalSet, statsHandle,
                 statsActive, txs, shuts, disconnects, stops, shutdownEvents>>

\* downloader.download() settles: the binary path, or an error
DownloadDone(ok) ==
    /\ setupPc = "downloading"
    /\ IF ok THEN setupPc' = "createAgent" /\ setupErr' = setupErr
       ELSE setupPc' = "rejecting" /\ setupErr' = "DownloadFailed"
    /\ UNCHANGED <<cfgVars, tripleVars, traceVars, config, agent, connected, settingUp,
                 connectResult, downloads, spawned, connects, sent, handlers,
                 globalSet, statsHandle, statsActive, calls, txs, shuts, disconnects,
                 stops, shutdownEvents>>

\* new ExternalProcessAgent(...) and setupAgent(agent): this.agent is assigned
CreateAgent ==
    /\ setupPc = "createAgent"
    /\ agent' = "present"
    /\ setupPc' = "startAgent"
    /\ UNCHANGED <<cfgVars, tripleVars, traceVars, config, connected, settingUp, setupErr,
                 connectResult, downloads, spawned, connects, sent, handlers,
                 globalSet, statsHandle, statsActive, calls, txs, shuts, disconnects,
                 stops, shutdownEvents>>

\* this.agent.start(): the core-agent process is spawned
StartAgent ==
    /\ setupPc = "startAgent"
    /\ IF agent # "present"
       THEN setupPc' = "rejecting" /\ setupErr' = "NoAgentPresent" /\ spawned' = spawned
       ELSE setupPc' = "starting" /\ setupErr' = setupErr /\ spawned' = spawned + 1
    /\ UNCHANGED <<cfgVars, tripleVars, traceVars, config, agent, connected, settingUp,
                 connectResult, downloads, connects, sent, handlers, globalSet,
                 statsHandle, statsActive, calls, txs, shuts, disconnects, stops,
                 shutdownEvents>>

\* agent.start() settles
StartDone(ok) ==
    /\ setupPc = "starting"
    /\ IF ok THEN setupPc' = "launched" /\ setupErr' = setupErr
       ELSE setupPc' = "rejecting" /\ setupErr' = "SpawnFailed"
    /\ UNCHANGED <<cfgVars, tripleVars, traceVars, config, agent, connected, settingUp,
                 connectResult, downloads, spawned, connects, sent, handlers,
                 globalSet, statsHandle, statsActive, calls, txs, shuts, disconnects,
                 stops, shutdownEvents>>

\* the last step of downloadAndLaunchAgent(): the agent must still be held
LaunchFinish ==
    /\ setupPc = "launched"
    /\ IF agent # "present"
       THEN setupPc' = "rejecting" /\ setupErr' = "NoAgentPresent"
       ELSE setupPc' = "connect" /\ setupErr' = setupErr
    /\ UNCHANGED <<cfgVars, tripleVars, traceVars, config, agent, connected, settingUp,
                 connectResult, downloads, spawned, connects, sent, handlers,
                 globalSet, statsHandle, statsActive, calls, txs, shuts, disconnects,
                 stops, shutdownEvents>>

\* a createAgentForExistingSocket() that builds and keeps the agent before the probe's answer is looked at
ProbeDone_AgentFirst(exists) ==
    /\ setupPc = "probing"
    /\ agent' = "present"
    /\ IF exists THEN setupPc' = "connect" /\ setupErr' = setupErr
       ELSE setupPc' = "rejecting" /\ setupErr' = "InvalidConfiguration"
    /\ UNCHANGED <<cfgVars, tripleVars, traceVars, config, connected, settingUp,
                 connectResult, downloads, spawned, connects, sent, handlers,
                 globalSet, statsHandle, statsActive, calls, txs, shuts, disconnects,
                 stops, shutdownEvents>>

\* agentIsRunning(socketPath) settles: a missing endpoint is an InvalidConfiguration
ProbeDone(exists) ==
    /\ setupPc = "probing"
    /\ IF exists THEN setupPc' = "createAgentAttach" /\ setupErr' = setupErr
       ELSE setupPc' = "rejecting" /\ setupErr' = "InvalidConfiguration"
    /\ UNCHANGED <<cfgVars, tripleVars, traceVars, config, agent, connected, settingUp,
                 connectResult, downloads, spawned, connects, sent, handlers,
                 globalSet, statsHandle, statsActive, calls, txs, shuts, disconnects,
                 stops, shutdownEvents>>

\* createAgentForExistingSocket(): the agent object is built and setupAgent assigns it
CreateAgentAttach ==
    /\ setupPc = "createAgentAttach"
    /\ agent' = "present"
    /\ setupPc' = "connect"
    /\ UNCHANGED <<cfgVars, tripleVars, traceVars, config, connected, settingUp, setupErr,
                 connectResult, downloads, spawned, connects, sent, handlers,
                 globalSet, statsHandle, statsActive, calls, txs, shuts, disconnects,
                 stops, shutdownEvents>>

\* first step of the chain in setup(): this.agent.connect()
Connect ==
    /\ setupPc = "connect"
    /\ IF agent # "present"
       THEN setupPc' = "rejecting" /\ setupErr' = "NoAgentPresent" /\ connects' = connects
       ELSE setupPc' = "connecting" /\ setupErr' = setupErr /\ connects' = connects + 1
    /\ UNCHANGED <<cfgVars, tripleVars, traceVars, config, agent, connected, settingUp,
                 connectResult, downloads, spawned, sent, handlers, globalSet,
                 statsHandle, statsActive, calls, txs, shuts, disconnects, stops,
                 shutdownEvents>>

\* a chain in which a failed agent.connect() is not noticed
ConnectDone_IgnoreFailure(ok) ==
    /\ setupPc = "connecting"
    /\ setupPc' = "setRegistration"
    /\ setupErr' = setupErr
    /\ connected' = ok
    /\ connectResult' = IF ok THEN "ok" ELSE "failed"
    /\ UNCHANGED <<cfgVars, tripleVars, traceVars, config, agent, settingUp, downloads,
                 spawned, connects, sent, handlers, globalSet, statsHandle, statsActive,
                 calls, txs, shuts, disconnects, stops, shutdownEvents>>

\* agent.connect() settles
ConnectDone(ok) ==
    /\ setupPc = "connecting"
    /\ IF ok
       THEN /\ setupPc' = "setRegistration"
            /\ setupErr' = setupErr
            /\ connected' = TRUE
            /\ connectResult' = "ok"
       ELSE /\ setupPc' = "rejecting"
            /\ setupErr' = AgentConnectError
            /\ connected' = connected
            /\ connectResult' = "failed"
    /\ UNCHANGED <<cfgVars, tripleVars, traceVars, config, agent, settingUp, downloads, spawned,
                 connects, sent, handlers, globalSet, statsHandle, statsActive, calls,
                 txs, shuts, disconnects, stops, shutdownEvents>>

\* the name/key warnings and agent.setRegistrationAndMetadata(...)
SetRegistration ==
    /\ setupPc = "setRegistration"
    /\ IF agent # "present"
       THEN setupPc' = "rejecting" /\ setupErr' = "NoAgentPresent"
       ELSE setupPc' = "sendRegister" /\ setupErr' = setupErr
    /\ UNCHANGED <<cfgVars, tripleVars, traceVars, config, agent, connected, settingUp,
                 connectResult, downloads, spawned, connects, sent, handlers,
                 globalSet, statsHandle, statsActive, calls, txs, shuts, disconnects,
                 stops, shutdownEvents>>

\* sendThroughAgent(scout, msg): the message is handed to agent.send(), or the
\* call rejects.  hasAgent() is false for an undefined and for a null agent, so
\* the NoAgentPresent branch behind it is never taken.
SendThroughAgent ==
    IF agent # "present" THEN "Disconnected"
    ELSE IF ~config.monitor THEN "MonitoringDisabled"
    ELSE "handed"

\* sendRegistrationRequest(): a rejection is logged and absorbed
SendRegistration ==
    /\ setupPc = "sendRegister"
    /\ IF SendThroughAgent = "handed"
       THEN sent' = Append(sent, "Register") /\ setupPc' = "registering"
       ELSE sent' = sent /\ setupPc' = "sendMetadata"
    /\ UNCHANGED <<cfgVars, tripleVars, traceVars, config, agent, connected, settingUp, setupErr,
                 connectResult, downloads, spawned, connects, handlers, globalSet,
                 statsHandle, statsActive, calls, txs, shuts, disconnects, stops,
                 shutdownEvents>>

\* the agent answers the Register message, or the send fails: either way the chain goes on
RegistrationDone ==
    /\ setupPc = "registering"
    /\ setupPc' = "sendMetadata"
    /\ UNCHANGED <<cfgVars, tripleVars, traceVars, config, agent, connected, settingUp, setupErr,
                 connectResult, downloads, spawned, connects, sent, handlers,
                 globalSet, statsHandle, statsActive, calls, txs, shuts, disconnects,
                 stops, shutdownEvents>>

\* sendAppMetadataEvent(): a rejection is logged and absorbed
SendAppMetadata ==
    /\ setupPc = "sendMetadata"
    /\ IF SendThroughAgent = "handed"
       THEN sent' = Append(sent, "ScoutMetadata") /\ setupPc' = "sendingMetadata"
       ELSE sent' = sent /\ setupPc' = "installHandler"
    /\ UNCHANGED <<cfgVars, tripleVars, traceVars, config, agent, connected, settingUp, setupErr,
                 connectResult, downloads, spawned, connects, handlers, globalSet,
                 statsHandle, statsActive, calls, txs, shuts, disconnects, stops,
                 shutdownEvents>>

\* the agent answers the ApplicationEvent, or the send fails
AppMetadataDone ==
    /\ setupPc = "sendingMetadata"
    /\ setupPc' = "installHandler"
    /\ UNCHANGED <<cfgVars, tripleVars, traceVars, config, agent, connected, settingUp, setupErr,
                 connectResult, downloads, spawned, connects, sent, handlers,
                 globalSet, statsHandle, statsActive, calls, txs, shuts, disconnects,
                 stops, shutdownEvents>>

\* setupIntegrations() and process.on("uncaughtException", ...)
InstallHandler ==
    /\ setupPc = "installHandler"
    /\ handlers' = handlers + 1
    /\ setupPc' = "setGlobal"
    /\ UNCHANGED <<cfgVars, tripleVars, traceVars, config, agent, connected, settingUp, setupErr,
                 connectResult, downloads, spawned, connects, sent, globalSet,
                 statsHandle, statsActive, calls, txs, shuts, disconnects, stops,
                 shutdownEvents>>

\* setActiveGlobalScoutInstance(this): kept only when no instance is registered
SetGlobalInstance ==
    /\ setupPc = "setGlobal"
    /\ globalSet' = TRUE
    /\ setupPc' = "startStats"
    /\ UNCHANGED <<cfgVars, tripleVars, traceVars, config, agent, connected, settingUp, setupErr,
                 connectResult, downloads, spawned, connects, sent, handlers,
                 statsHandle, statsActive, calls, txs, shuts, disconnects, stops,
                 shutdownEvents>>

\* startSendingStatistics(): a timer is created unless one is recorded
StartSendingStatistics ==
    /\ setupPc = "startStats"
    /\ IF statsHandle THEN UNCHANGED <<statsHandle, statsActive, timersCreated>>
       ELSE /\ statsHandle' = TRUE
            /\ statsActive' = TRUE
            /\ timersCreated' = timersCreated + 1
    /\ setupPc' = "resolving"
    /\ UNCHANGED <<cfgVars, tripleVars, tracesBesideStats, config, agent, connected, settingUp, setupErr,
                 connectResult, downloads, spawned, connects, sent, handlers,
                 globalSet, calls, txs, shuts, disconnects, stops, shutdownEvents>>

\* the last .then(() => this): this.settingUp resolves
SetupResolved ==
    /\ setupPc = "resolving"
    /\ settingUp' = "resolved"
    /\ setupPc' = "ready"
    /\ UNCHANGED <<cfgVars, tripleVars, traceVars, config, agent, connected, setupErr,
                 connectResult, downloads, spawned, connects, sent, handlers,
                 globalSet, statsHandle, statsActive, calls, txs, shuts, disconnects,
                 stops, shutdownEvents>>

\* a rejection has run down the chain: this.settingUp rejects
SetupRejected ==
    /\ setupPc = "rejecting"
    /\ settingUp' = "rejected"
    /\ setupPc' = "failed"
    /\ UNCHANGED <<cfgVars, tripleVars, traceVars, config, agent, connected, setupErr,
                 connectResult, downloads, spawned, connects, sent, handlers,
                 globalSet, statsHandle, statsActive, calls, txs, shuts, disconnects,
                 stops, shutdownEvents>>

-----------------------------------------------------------------------------
(* The Scout engine: transaction *)

\* what the callback given to transaction() does when it is invoked: it returns
\* a value (or a promise that resolves), throws, or returns a promise that rejects
CbKinds == {"returns", "throws", "rejects"}

\* a transaction() whose promise rejects with NoAgentPresent when setup() did
\* not resolve
TxOutcome_RejectWithoutAgent(path, cb) ==
    IF path = "catch" THEN [outcome |-> "rejected", err |-> "NoAgentPresent"]
    ELSE [outcome |-> "resolved", err |-> ""]

\* how the promise returned by transaction() settles.  path "then":
\* this.setup() resolved, withAsyncRequestContext(cb) ran in the .then and a
\* rejection of it is absorbed by the .catch (ranContext is true).  path "catch":
\* this.setup() rejected and the .catch returns withAsyncRequestContext(cb).
\* withAsyncRequestContext resolves with cb's result; a throw of cb is caught
\* inside it and resolves with undefined.
TxOutcome(path, cb) ==
    IF cb = "rejects" /\ path = "catch"
    THEN [outcome |-> "rejected", err |-> "CbError"]
    ELSE [outcome |-> "resolved", err |-> ""]

\* the record of a transaction() call; op tells whether the embedding program
\* called transaction() itself or instrument() outside of any request
TxRec(op) ==
    [op |-> op,
     pc |-> IF SetupReturns = "threw" THEN "done" ELSE "awaitSetup",
     awaiting |-> SetupReturns, path |-> "", cb |-> "", cbRuns |-> 0,
     request |-> "none",
     outcome |-> IF SetupReturns = "threw" THEN "threw" ELSE "pending",
     err |-> IF SetupReturns = "threw" THEN "TypeError" ELSE "",
     connectResultAt |-> connectResult]

\* transaction(name, cb): this.setup() is called and its promise awaited
Transaction ==
    /\ Len(txs) < MaxTxs
    /\ Len(calls) < MaxSetupCalls
    /\ SetupBody
    /\ txs' = Append(txs, TxRec("transaction"))
    /\ UNCHANGED <<cfgVars, tripleVars, traceVars, config, agent, connected,
                 connectResult, spawned, connects, sent, handlers, globalSet,
                 statsHandle, statsActive, shuts, disconnects, stops, shutdownEvents>>

\* the promise transaction() got from setup() has settled: the .then or the .catch runs
TxSetupSettled(i) ==
    /\ txs[i].pc = "awaitSetup"
    /\ txs[i].awaiting = "immediate" \/ settingUp \in {"resolved", "rejected"}
    /\ txs' = [txs EXCEPT ![i].pc = "runContext",
                           ![i].path = IF txs[i].awaiting = "immediate" \/ settingUp = "resolved"
                                       THEN "then" ELSE "catch"]
    /\ UNCHANGED <<cfgVars, tripleVars, traceVars, config, agent, connected, settingUp, setupPc,
                 setupErr, connectResult, downloads, spawned, connects, sent, handlers,
                 globalSet, statsHandle, statsActive, calls, shuts, disconnects, stops,
                 shutdownEvents>>

\* withAsyncRequestContext(cb): the request is started, cb is invoked with it, and the promise settles
TxRunCallback(i, cb) ==
    /\ txs[i].pc = "runContext"
    /\ txs' = [txs EXCEPT ![i].pc = "done",
                           ![i].request = "started",
                           ![i].cbRuns = @ + 1,
                           ![i].cb = cb,
                           ![i].outcome = TxOutcome(txs[i].path, cb).outcome,
                           ![i].err = TxOutcome(txs[i].path, cb).err]
    /\ UNCHANGED <<cfgVars, tripleVars, traceVars, config, agent, connected, settingUp, setupPc,
                 setupErr, connectResult, downloads, spawned, connects, sent, handlers,
                 globalSet, statsHandle, statsActive, calls, shuts, disconnects, stops,
                 shutdownEvents>>

-----------------------------------------------------------------------------
(* The Scout engine: shutdown *)

\* the record of a shutdown() call: where its promise chain stands, how its
\* promise settled, and the steps it has performed so far, in order
ShutRec(pc, outcome, err, did) ==
    [pc |-> pc, outcome |-> outcome, err |-> err, did |-> did, agentAt |-> agent,
     tickerAt |-> statsHandle, handlerAt |-> handlers > 0]

\* the synchronous steps of shutdown() when an agent is held
ShutdownSyncSteps ==
    (IF statsHandle THEN <<"stopTicker">> ELSE <<>>)
        \o (IF handlers > 0 THEN <<"removeHandler">> ELSE <<>>)
        \o <<"disconnect">>

\* as ShutdownBody, but only an agent that a shutdown has cleared counts as missing
ShutdownBody_OnlyNullIsMissing ==
    /\ statsActive' = IF statsHandle THEN FALSE ELSE statsActive
    /\ IF agent = "null"
       THEN /\ shuts' = Append(shuts, ShutRec("done", "rejected", "NoAgentPresent",
                                       IF statsHandle THEN <<"stopTicker">> ELSE <<>>))
            /\ UNCHANGED <<handlers, disconnects>>
       ELSE /\ handlers' = 0
            /\ disconnects' = disconnects + 1
            /\ shuts' = Append(shuts, ShutRec("disconnecting", "pending", "",
                                               ShutdownSyncSteps))
    /\ UNCHANGED <<cfgVars, tripleVars, traceVars, config, agent, connected, settingUp,
                 setupPc, setupErr, connectResult, downloads, spawned, connects, sent,
                 globalSet, statsHandle, calls, txs, stops, shutdownEvents>>

\* the synchronous part of shutdown(): the timer is cleared, then without an agent the call rejects; else the listener is removed and agent.disconnect() is called
ShutdownBody ==
    /\ statsActive' = IF statsHandle THEN FALSE ELSE statsActive
    /\ IF agent # "present"
       THEN /\ shuts' = Append(shuts, ShutRec("done", "rejected", "NoAgentPresent",
                                       IF statsHandle THEN <<"stopTicker">> ELSE <<>>))
            /\ UNCHANGED <<handlers, disconnects>>
       ELSE /\ handlers' = 0
            /\ disconnects' = disconnects + 1
            /\ shuts' = Append(shuts, ShutRec("disconnecting", "pending", "",
                                               ShutdownSyncSteps))
    /\ UNCHANGED <<cfgVars, tripleVars, traceVars, config, agent, connected, settingUp,
                 setupPc, setupErr, connectResult, downloads, spawned, connects, sent,
                 globalSet, statsHandle, calls, txs, stops, shutdownEvents>>

\* a shutdown() call by the embedding program
Shutdown ==
    /\ Len(shuts) < MaxShutdowns
    /\ ShutdownBody

\* a shutdown() that asks the agent process to stop whatever allowShutdown says
DisconnectDone_AlwaysStop(i, ok) ==
    /\ shuts[i].pc = "disconnecting"
    /\ IF ~ok
       THEN /\ shuts' = [shuts EXCEPT ![i].pc = "done", ![i].outcome = "rejected",
                                      ![i].err = "DisconnectFailed"]
            /\ UNCHANGED <<connected, stops>>
       ELSE /\ connected' = FALSE
            /\ stops' = stops + 1
            /\ shuts' = [shuts EXCEPT ![i].pc = "stopping",
                                      ![i].did = Append(@, "stopProcess")]
    /\ UNCHANGED <<cfgVars, tripleVars, traceVars, config, agent, settingUp, setupPc,
                 setupErr, connectResult, downloads, spawned, connects, sent, handlers,
                 globalSet, statsHandle, statsActive, calls, txs, disconnects,
                 shutdownEvents>>

\* agent.disconnect() settles; on success the process is stopped when allowShutdown is set and an agent is held
DisconnectDone(i, ok) ==
    /\ shuts[i].pc = "disconnecting"
    /\ IF ~ok
       THEN /\ shuts' = [shuts EXCEPT ![i].pc = "done", ![i].outcome = "rejected",
                                      ![i].err = "DisconnectFailed"]
            /\ UNCHANGED <<connected, stops>>
       ELSE /\ connected' = FALSE
            /\ IF config.allowShutdown /\ agent = "present"
               THEN /\ stops' = stops + 1
                    /\ shuts' = [shuts EXCEPT ![i].pc = "stopping",
                                              ![i].did = Append(@, "stopProcess")]
               ELSE /\ stops' = stops
                    /\ shuts' = [shuts EXCEPT ![i].pc = "clearing"]
    /\ UNCHANGED <<cfgVars, tripleVars, traceVars, config, agent, settingUp, setupPc,
                 setupErr, connectResult, downloads, spawned, connects, sent, handlers,
                 globalSet, statsHandle, statsActive, calls, txs, disconnects,
                 shutdownEvents>>

\* agent.stopProcess() settles
StopProcessDone(i, ok) ==
    /\ shuts[i].pc = "stopping"
    /\ shuts' = IF ok THEN [shuts EXCEPT ![i].pc = "clearing"]
                ELSE [shuts EXCEPT ![i].pc = "done", ![i].outcome = "rejected",
                                   ![i].err = "StopFailed"]
    /\ UNCHANGED <<cfgVars, tripleVars, traceVars, config, agent, connected, settingUp,
                 setupPc, setupErr, connectResult, downloads, spawned, connects, sent,
                 handlers, globalSet, statsHandle, statsActive, calls, txs,
                 disconnects, stops, shutdownEvents>>

\* the last step of shutdown(): this.agent = null and ScoutEvent.Shutdown is emitted
ShutdownClear(i) ==
    /\ shuts[i].pc = "clearing"
    /\ agent' = "null"
    /\ shutdownEvents' = shutdownEvents + 1
    /\ shuts' = [shuts EXCEPT ![i].pc = "done", ![i].outcome = "resolved",
                              ![i].did = @ \o <<"clear", "emit">>]
    /\ UNCHANGED <<cfgVars, tripleVars, traceVars, config, connected, settingUp,
                 setupPc, setupErr, connectResult, downloads, spawned, connects, sent,
                 handlers, globalSet, statsHandle, statsActive, calls, txs,
                 disconnects, stops>>

-----------------------------------------------------------------------------
(* The Scout engine: specification *)

Init ==
    /\ ResolverIdle
    /\ TripleIdle
    /\ \E c \in EngineConfigs : EngineConstructed(c)
    /\ TraceIdle

Next ==
    \/ Setup
    \/ \E ok \in BOOLEAN : DownloadDone(ok)
    \/ CreateAgent
    \/ StartAgent
    \/ \E ok \in BOOLEAN : StartDone(ok)
    \/ LaunchFinish
    \/ \E exists \in BOOLEAN : ProbeDone(exists)
    \/ CreateAgentAttach
    \/ Connect
    \/ \E ok \in BOOLEAN : ConnectDone(ok)
    \/ SetRegistration
    \/ SendRegistration
    \/ RegistrationDone
    \/ SendAppMetadata
    \/ AppMetadataDone
    \/ InstallHandler
    \/ SetGlobalInstance
    \/ StartSendingStatistics
    \/ SetupResolved
    \/ SetupRejected
    \/ Transaction
    \/ \E i \in DOMAIN txs : TxSetupSettled(i)
    \/ \E i \in DOMAIN txs : \E cb \in CbKinds : TxRunCallback(i, cb)
    \/ Shutdown
    \/ \E i \in DOMAIN shuts : \E ok \in BOOLEAN : DisconnectDone(i, ok)
    \/ \E i \in DOMAIN shuts : \E ok \in BOOLEAN : StopProcessDone(i, ok)
    \/ \E i \in DOMAIN shuts : ShutdownClear(i)

Spec == Init /\ [][Next]_vars

-----------------------------------------------------------------------------
(* The steps shared by the specifications of the engine *)

\* one step of the promise chain built by setup()
SetupChainStep ==
    \/ \E ok \in BOOLEAN : DownloadDone(ok)
    \/ CreateAgent
    \/ StartAgent
    \/ \E ok \in BOOLEAN : StartDone(ok)
    \/ LaunchFinish
    \/ \E exists \in BOOLEAN : ProbeDone(exists)
    \/ CreateAgentAttach
    \/ Connect
    \/ \E ok \in BOOLEAN : ConnectDone(ok)
    \/ SetRegistration
    \/ SendRegistration
    \/ RegistrationDone
    \/ SendAppMetadata
    \/ AppMetadataDone
    \/ InstallHandler
    \/ SetGlobalInstance
    \/ StartSendingStatistics
    \/ SetupResolved
    \/ SetupRejected

\* one step of the promise chain built by a shutdown() call
ShutdownChainStep ==
    \/ \E i \in DOMAIN shuts : \E ok \in BOOLEAN : DisconnectDone(i, ok)
    \/ \E i \in DOMAIN shuts : \E ok \in BOOLEAN : StopProcessDone(i, ok)
    \/ \E i \in DOMAIN shuts : ShutdownClear(i)

-----------------------------------------------------------------------------
(* The Scout engine: setupNonBlocking *)

\* a setupNonBlocking() whose race lists the rejection first
SetupNonBlockingReturns_RejectFirst ==
    IF settingUp = "unset" THEN SetupReturns ELSE "InstanceNotReady"

\* what setupNonBlocking() returns: without this.settingUp the promise of the
\* setup() it calls ("shared", or "threw"); else the outcome of
\* Promise.race([this.settingUp, Promise.reject(new InstanceNotReady())]), which
\* is that of this.settingUp when it has settled and the rejection otherwise
SetupNonBlockingReturns ==
    IF settingUp = "unset" THEN SetupReturns
    ELSE IF settingUp = "pending" THEN "InstanceNotReady"
    ELSE settingUp

\* a setupNonBlocking() call by the embedding program
SetupNonBlocking ==
    /\ Len(nbCalls) < MaxNonBlocking
    /\ nbCalls' = Append(nbCalls,
                     [ret |-> SetupNonBlockingReturns, settingUpAt |-> settingUp,
                      err |-> IF SetupNonBlockingReturns = "rejected" THEN setupErr ELSE ""])
    /\ IF settingUp = "unset"
       THEN Len(calls) < MaxSetupCalls /\ SetupBody
       ELSE UNCHANGED <<calls, settingUp, setupPc, setupErr, downloads>>
    /\ UNCHANGED <<cfgVars, tripleVars, tracesBesideNb, config, agent, connected,
                 connectResult, spawned, connects, sent, handlers, globalSet,
                 statsHandle, statsActive, txs, shuts, disconnects, stops,
                 shutdownEvents>>

InitNonBlocking ==
    /\ ResolverIdle
    /\ TripleIdle
    /\ \E c \in EngineConfigs : EngineConstructed(c)
    /\ TraceIdle

NextNonBlocking ==
    \/ Setup
    \/ SetupNonBlocking
    \/ SetupChainStep
    \/ Shutdown
    \/ ShutdownChainStep

SpecNonBlocking == InitNonBlocking /\ [][NextNonBlocking]_vars

-----------------------------------------------------------------------------
(* The Scout engine: shutdown() from several callers *)

\* a shutdown() call by one of several callers
ShutdownByCaller ==
    /\ Len(shuts) < MaxShutdownCallers
    /\ ShutdownBody

InitShutdown ==
    /\ ResolverIdle
    /\ TripleIdle
    /\ \E c \in EngineConfigs : EngineConstructed(c)
    /\ TraceIdle

NextShutdown ==
    \/ Setup
    \/ SetupChainStep
    \/ ShutdownByCaller
    \/ ShutdownChainStep

SpecShutdown == InitShutdown /\ [][NextShutdown]_vars

-----------------------------------------------------------------------------
(* The Scout engine: ignoresPath *)

\* the characters paths and prefixes are made of
PathChars == {"/", "a"}
Comma == ","

\* all strings over a set of characters, up to a length
RECURSIVE StringsUpTo(_, _)
StringsUpTo(chars, n) ==
    IF n = 0 THEN {<<>>}
    ELSE LET shorter == StringsUpTo(chars, n - 1)
         IN shorter \cup {Append(s, c) : s \in shorter, c \in chars}

\* all lists over a set of elements, up to a length
RECURSIVE ListsUpTo(_, _)
ListsUpTo(elems, n) ==
    IF n = 0 THEN {<<>>}
    ELSE LET shorter == ListsUpTo(elems, n - 1)
         IN shorter \cup {Append(l, e) : l \in shorter, e \in elems}

Paths == StringsUpTo(PathChars, MaxPathLen)
IgnorePrefixes == {<<>>, <<"/">>, <<"a">>, <<"/", "a">>}

\* v.split(","): the pieces between the commas, empty pieces kept
RECURSIVE SplitOnComma(_)
SplitOnComma(v) ==
    IF \A k \in DOMAIN v : v[k] # Comma THEN <<v>>
    ELSE LET k == CHOOSE k \in DOMAIN v : v[k] = Comma /\ \A j \in 1..(k - 1) : v[j] # Comma
         IN <<SubSeq(v, 1, k - 1)>> \o SplitOnComma(SubSeq(v, k + 1, Len(v)))

\* values of the environment variable SCOUT_IGNORE
EnvIgnoreValues ==
    {<<>>, <<"/">>, <<"/", ",">>, <<",", "/">>, <<"a", ",", "/">>, <<"/", "a", ",", "a">>}

\* config.ignore as the engine can be given it: absent, a list set by the
\* embedding program, or the split value of SCOUT_IGNORE
IgnoreChoices ==
    {[given |-> FALSE, list |-> <<>>]}
        \cup {[given |-> TRUE, list |-> l] : l \in ListsUpTo(IgnorePrefixes, MaxIgnoreLen)}
        \cup {[given |-> TRUE, list |-> SplitOnComma(v)] : v \in EnvIgnoreValues}

\* s.indexOf(sub): the position (from 0) of the first occurrence of sub in s, or -1
IndexOf(s, sub) ==
    LET hits == {k \in 0..(Len(s) - Len(sub)) : SubSeq(s, k + 1, k + Len(sub)) = sub}
    IN IF hits = {} THEN -1 ELSE CHOOSE k \in hits : \A j \in hits : k <= j

\* a prefix test that accepts an occurrence anywhere in the path
MatchesPrefix_Anywhere(path, prefix) == IndexOf(path, prefix) >= 0

\* the predicate given to find(): path.indexOf(prefix) === 0
MatchesPrefix(path, prefix) == IndexOf(path, prefix) = 0

\* list.find(prefix => ...): the position of the first element that matches, 0
\* standing for the undefined that find() returns when none does
FindMatchingPrefix(list, path) ==
    LET hits == {k \in DOMAIN list : MatchesPrefix(path, list[k])}
    IN IF hits = {} THEN 0 ELSE CHOOSE k \in hits : \A j \in hits : k <= j

\* what ignoresPath(path) returns and how often it emits IgnoredPathDetected
IgnoresPathResult(path) ==
    IF ~ignore.given \/ Len(ignore.list) = 0
    THEN [result |-> FALSE, emits |-> 0]
    ELSE LET k == FindMatchingPrefix(ignore.list, path)
         IN [result |-> k # 0,
             emits |-> IF k # 0 /\ Truthy(Str(ignore.list[k])) THEN 1 ELSE 0]

\* an ignoresPath(path) call
IgnoresPath(path) ==
    /\ ignoreOp' = [path |-> path, result |-> IgnoresPathResult(path).result,
                    emits |-> IgnoresPathResult(path).emits, called |-> TRUE]
    /\ UNCHANGED <<cfgVars, tripleVars, tracesBesideIgnore, ignore, config, agent,
                 connected, settingUp, setupPc, setupErr, connectResult, downloads,
                 spawned, connects, sent, handlers, globalSet, statsHandle,
                 statsActive, calls, txs, shuts, disconnects, stops, shutdownEvents>>

InitIgnore ==
    /\ ResolverIdle
    /\ TripleIdle
    /\ EngineConstructed(DefaultEngineConfig)
    /\ NonBlockingIdle
    /\ SendIdle
    /\ WireIdle
    /\ StatsIdle
    /\ EndpointIdle
    /\ CtxIdle
    /\ ignore \in IgnoreChoices
    /\ ignoreOp = NoIgnoreOp

NextIgnore == \E path \in Paths : IgnoresPath(path)

SpecIgnore == InitIgnore /\ [][NextIgnore]_vars

-----------------------------------------------------------------------------
(* The Scout engine: requests and the send helpers *)

\* what a callback does with its request before done(): whether the request is
\* marked ignored, whether it instruments one span, whether it adds context
ReqShapes == [ignored : BOOLEAN, span : BOOLEAN, tags : BOOLEAN]
PlainShape == [ignored |-> FALSE, span |-> FALSE, tags |-> FALSE]

\* a message as it is handed to the agent: its type and the id of its request
Msg(kind, r) == kind \o "#" \o ToString(r)
SpanAndTagKinds == {"StartSpan", "TagSpan", "StopSpan", "TagRequest"}

\* the sends a finished request makes, in order: StartRequest, its span with
\* the span's tag, its own tag, FinishRequest
FlushPlan(req) ==
    <<"StartRequest">>
        \o (IF req.span
            THEN <<"StartSpan">> \o (IF req.tags THEN <<"TagSpan">> ELSE <<>>) \o <<"StopSpan">>
            ELSE <<>>)
        \o (IF req.tags THEN <<"TagRequest">> ELSE <<>>)
        \o <<"FinishRequest">>

\* how the promise of sendThroughAgent() settles; accepted tells whether the
\* agent answers a message handed to it with success
SendThroughAgentSettles(accepted) ==
    IF SendThroughAgent = "handed" /\ accepted THEN "fulfilled" ELSE "rejected"

\* a send helper without its .catch
Absorb_Rethrow(inner) == IF inner = "rejected" THEN "rejected" ELSE "resolved"

\* sendThroughAgent(...).then(() => req).catch(err => { log; return req })
Absorb(inner) == "resolved"

\* a send helper that sends for an ignored request as for any other
SendHelper_NoIgnoreCheck(kind, ignored, accepted) ==
    [via |-> IF SendThroughAgent # "handed" THEN SendThroughAgent
             ELSE IF accepted THEN "sent" ELSE "SendFailed",
     handed |-> SendThroughAgent = "handed",
     outcome |-> Absorb(SendThroughAgentSettles(accepted)),
     skipped |-> 0,
     requestSent |-> IF SendThroughAgent = "handed" /\ accepted /\ kind = "FinishRequest"
                     THEN 1 ELSE 0]

\* sendStartRequest, sendStopRequest, sendTagRequest, sendStartSpan, sendTagSpan,
\* sendStopSpan: for an ignored request or span IgnoredRequestProcessingSkipped
\* is emitted and nothing is sent; else the message goes through
\* sendThroughAgent() and a rejection is logged.  Only sendStopRequest emits
\* RequestSent, after a send the agent accepted.
SendHelper(kind, ignored, accepted) ==
    IF ignored
    THEN [via |-> "ignored", handed |-> FALSE, outcome |-> "resolved",
          skipped |-> 1, requestSent |-> 0]
    ELSE [via |-> IF SendThroughAgent # "handed" THEN SendThroughAgent
                  ELSE IF accepted THEN "sent" ELSE "SendFailed",
          handed |-> SendThroughAgent = "handed",
          outcome |-> Absorb(SendThroughAgentSettles(accepted)),
          skipped |-> 0,
          requestSent |-> IF SendThroughAgent = "handed" /\ accepted /\ kind = "FinishRequest"
                          THEN 1 ELSE 0]

\* instrument(operation, cb) without a current request or span: a transaction() is made whose callback instruments
InstrumentTopLevel ==
    /\ Len(txs) < MaxTxs
    /\ Len(calls) < MaxSetupCalls
    /\ SetupBody
    /\ txs' = Append(txs, TxRec("instrument"))
    /\ UNCHANGED <<cfgVars, tripleVars, traceVars, config, agent, connected,
                 connectResult, spawned, connects, sent, handlers, globalSet,
                 statsHandle, statsActive, shuts, disconnects, stops, shutdownEvents>>

\* withAsyncRequestContext(cb): the request is started and cb is invoked with it; the request made for an instrument() always has the span
StartRequestAndRun(i, cb, shape) ==
    /\ txs[i].pc = "runContext"
    /\ txs[i].op = "instrument" => shape.span
    /\ txs' = [txs EXCEPT ![i].pc = "done",
                           ![i].request = "started",
                           ![i].cbRuns = @ + 1,
                           ![i].cb = cb,
                           ![i].outcome = TxOutcome(txs[i].path, cb).outcome,
                           ![i].err = TxOutcome(txs[i].path, cb).err]
    /\ reqs' = Append(reqs, [tx |-> i, ignored |-> shape.ignored, span |-> shape.span,
                              tags |-> shape.tags, pc |-> "running", todo |-> <<>>,
                              dones |-> 0])
    /\ UNCHANGED <<cfgVars, tripleVars, tracesBesideRequests, sendOp, ticks, config,
                 agent, connected, settingUp, setupPc, setupErr, connectResult,
                 downloads, spawned, connects, sent, handlers, globalSet, statsHandle,
                 statsActive, calls, shuts, disconnects, stops, shutdownEvents>>

\* a done() whose onStop is never cleared: every call finishes and sends again
CallDone_FlushEveryTime(r) ==
    /\ reqs[r].dones < MaxDoneCalls
    /\ reqs[r].pc # "flushing"
    /\ reqs' = [reqs EXCEPT ![r].dones = @ + 1, ![r].pc = "flushing",
                            ![r].todo = FlushPlan(reqs[r])]
    /\ UNCHANGED <<cfgVars, tripleVars, tracesBesideRequests, sendOp, ticks, config,
                 agent, connected, settingUp, setupPc, setupErr, connectResult,
                 downloads, spawned, connects, sent, handlers, globalSet, statsHandle,
                 statsActive, calls, txs, shuts, disconnects, stops, shutdownEvents>>

\* done() is called: request.stop() runs the onStop set by withAsyncRequestContext, which finishes and sends the request and is then cleared
CallDone(r) ==
    /\ reqs[r].dones < MaxDoneCalls
    /\ reqs' = IF reqs[r].dones = 0
               THEN [reqs EXCEPT ![r].dones = 1, ![r].pc = "flushing",
                                 ![r].todo = FlushPlan(reqs[r])]
               ELSE [reqs EXCEPT ![r].dones = @ + 1]
    /\ UNCHANGED <<cfgVars, tripleVars, tracesBesideRequests, sendOp, ticks, config,
                 agent, connected, settingUp, setupPc, setupErr, connectResult,
                 downloads, spawned, connects, sent, handlers, globalSet, statsHandle,
                 statsActive, calls, txs, shuts, disconnects, stops, shutdownEvents>>

\* the next send of a finishing request is made through its send helper and settles
FlushStep(r, accepted) ==
    /\ reqs[r].pc = "flushing"
    /\ LET kind == Head(reqs[r].todo)
           did == SendHelper(kind, reqs[r].ignored, accepted)
       IN /\ sendOp' = [kind |-> kind, req |-> ToString(r), ignored |-> reqs[r].ignored,
                         agentAt |-> agent, via |-> did.via, handed |-> did.handed,
                         outcome |-> did.outcome, skipped |-> did.skipped,
                         requestSent |-> did.requestSent]
          /\ sent' = IF did.handed THEN Append(sent, Msg(kind, r)) ELSE sent
          /\ reqs' = [reqs EXCEPT ![r].todo = Tail(@),
                                  ![r].pc = IF Len(reqs[r].todo) = 1 THEN "finished"
                                            ELSE "flushing"]
    /\ UNCHANGED <<cfgVars, tripleVars, tracesBesideRequests, ticks, config, agent,
                 connected, settingUp, setupPc, setupErr, connectResult, downloads,
                 spawned, connects, handlers, globalSet, statsHandle, statsActive,
                 calls, txs, shuts, disconnects, stops, shutdownEvents>>

\* a timer callback that returns without clearing the interval when the agent is gone
StatsTick_NoSelfDisable ==
    /\ statsActive
    /\ ticks < MaxTicks
    /\ ticks' = ticks + 1
    /\ statsActive' = statsActive
    /\ sent' = IF agent # "present" THEN sent
               ELSE sent \o <<"ApplicationEvent#MemoryUsageMB",
                              "ApplicationEvent#CPUUtilizationPercent">>
    /\ UNCHANGED <<cfgVars, tripleVars, tracesBesideRequests, sendOp, reqs, config,
                 agent, connected, settingUp, setupPc, setupErr, connectResult,
                 downloads, spawned, connects, handlers, globalSet, statsHandle, calls,
                 txs, shuts, disconnects, stops, shutdownEvents>>

\* the statistics timer fires: without an agent it clears itself, else two ApplicationEvents are handed to agent.sendAsync()
StatsTick ==
    /\ statsActive
    /\ ticks < MaxTicks
    /\ ticks' = ticks + 1
    /\ IF agent # "present"
       THEN statsActive' = FALSE /\ sent' = sent
       ELSE /\ statsActive' = statsActive
            /\ sent' = sent \o <<"ApplicationEvent#MemoryUsageMB",
                                  "ApplicationEvent#CPUUtilizationPercent">>
    /\ UNCHANGED <<cfgVars, tripleVars, tracesBesideRequests, sendOp, reqs, config,
                 agent, connected, settingUp, setupPc, setupErr, connectResult,
                 downloads, spawned, connects, handlers, globalSet, statsHandle, calls,
                 txs, shuts, disconnects, stops, shutdownEvents>>

\* the steps of transactions and their requests
RequestStep(shapes) ==
    \/ \E i \in DOMAIN txs : TxSetupSettled(i)
    \/ \E i \in DOMAIN txs : \E cb \in CbKinds : \E shape \in shapes :
           StartRequestAndRun(i, cb, shape)
    \/ \E r \in DOMAIN reqs : CallDone(r)
    \/ \E r \in DOMAIN reqs : \E accepted \in BOOLEAN : FlushStep(r, accepted)

-----------------------------------------------------------------------------
(* The Scout engine: what the agent is handed while setup, transactions and
   the statistics timer run side by side *)

\* requests that are sent: not ignored, with or without a span
WireShapes == {shape \in ReqShapes : ~shape.ignored /\ ~shape.tags}

InitWire ==
    /\ ResolverIdle
    /\ TripleIdle
    /\ \E c \in EngineConfigs : EngineConstructed(c)
    /\ TraceIdle

NextWire ==
    \/ Setup
    \/ SetupChainStep
    \/ Transaction
    \/ InstrumentTopLevel
    \/ RequestStep(WireShapes)
    \/ StatsTick

SpecWire == InitWire /\ [][NextWire]_vars

-----------------------------------------------------------------------------
(* The Scout engine: transactions and their requests on an engine whose
   setup() has settled *)

\* how the one setup() made before settled: it resolved; agent.connect() failed
\* and the agent stays assigned; it failed before an agent was created
SettledHows == {"ready", "connectFailed", "noAgent"}

\* the engine after a setup() on a new engine with configuration c has settled
\* as how tells; the values are those the setup chain leaves behind
EngineSettled(c, how) ==
    LET launches == c.coreAgentLaunch /\ c.hasVersion
        launched == IF launches /\ how # "noAgent" THEN 1 ELSE 0
    IN /\ how \in {"ready", "connectFailed"} =>
              IF c.coreAgentLaunch THEN c.hasVersion ELSE c.hasSocketPath
       /\ how = "noAgent" /\ ~c.coreAgentLaunch => c.hasSocketPath
       /\ config = c
       /\ agent = IF how = "noAgent" THEN "undefined" ELSE "present"
       /\ connected = (how = "ready")
       /\ settingUp = IF how = "ready" THEN "resolved" ELSE "rejected"
       /\ setupPc = IF how = "ready" THEN "ready" ELSE "failed"
       /\ setupErr = CASE how = "ready" -> ""
                       [] how = "connectFailed" -> AgentConnectError
                       [] OTHER -> IF ~c.coreAgentLaunch THEN "InvalidConfiguration"
                                   ELSE IF c.hasVersion THEN "DownloadFailed"
                                   ELSE "NoCoreAgentVersion"
       /\ connectResult = CASE how = "ready" -> "ok"
                            [] how = "connectFailed" -> "failed"
                            [] OTHER -> "none"
       /\ downloads = IF launches THEN 1 ELSE 0
       /\ spawned = launched
       /\ connects = IF how = "noAgent" THEN 0 ELSE 1
       /\ sent = IF how = "ready" /\ c.monitor THEN <<"Register", "ScoutMetadata">> ELSE <<>>
       /\ handlers = IF how = "ready" THEN 1 ELSE 0
       /\ globalSet = (how = "ready")
       /\ statsHandle = (how = "ready")
       /\ statsActive = (how = "ready")
       /\ calls = <<[ret |-> "shared", settingUpAt |-> "unset", agentAt |-> "undefined"]>>
       /\ txs = <<>>
       /\ shuts = <<>>
       /\ disconnects = 0
       /\ stops = 0
       /\ shutdownEvents = 0

InitRequest ==
    /\ ResolverIdle
    /\ TripleIdle
    /\ \E c \in EngineConfigs : \E how \in SettledHows : EngineSettled(c, how)
    /\ NonBlockingIdle /\ IgnoreIdle /\ SendIdle /\ WireIdle /\ EndpointIdle /\ CtxIdle
    /\ timersCreated = IF statsHandle THEN 1 ELSE 0

NextRequest ==
    \/ Transaction
    \/ InstrumentTopLevel
    \/ RequestStep(ReqShapes)
    \/ Shutdown
    \/ ShutdownChainStep

SpecRequest == InitRequest /\ [][NextRequest]_vars

-----------------------------------------------------------------------------
(* The options the downloader is called with *)

\* whether config.coreAgentDownload is true, false or missing, and whether the
\* downloadOptions given to the constructor set disallowDownload
CoreAgentDownloadValues == {"true", "false", "missing"}
OptsDisallowValues == {"true", "false", "missing"}

\* buildDownloadOptions(config).disallowDownload: !config.coreAgentDownload
buildDownloadOptions(coreAgentDownload) == coreAgentDownload # "true"

\* Object.assign({cacheDir, updateCache}, this.downloaderOptions,
\* buildDownloadOptions(this.config)): the last object that has the key wins, and
\* buildDownloadOptions always has it
DownloaderDisallowDownload(optsDisallow, coreAgentDownload) ==
    buildDownloadOptions(coreAgentDownload)

-----------------------------------------------------------------------------
(* The Scout engine: the statistics timer beside setup() and shutdown() *)

InitStats ==
    /\ ResolverIdle
    /\ TripleIdle
    /\ \E c \in EngineConfigs : EngineConstructed(c)
    /\ TraceIdle

NextStats ==
    \/ Setup
    \/ SetupChainStep
    \/ Shutdown
    \/ ShutdownChainStep
    \/ StatsTick

SpecStats == InitStats /\ [][NextStats]_vars

-----------------------------------------------------------------------------
(* The Scout engine: the socket path and the socket type *)

CORE_AGENT_TCP_SOCKET_MIN_VERSION == <<1, 3, 0>>
TcpPrefix == <<"t","c","p",":","/","/">>
UnixPrefix == <<"u","n","i","x",":","/","/">>
\* `tcp://${CORE_AGENT_TCP_DEFAULT_HOST}:${CORE_AGENT_TCP_DEFAULT_PORT}`
DefaultTcpEndpoint == <<"t","c","p",":","/","/","1","2","7",".","0",".","0",".","1",":","6","5","9","0">>
DEFAULT_CORE_AGENT_DOWNLOAD_CACHE_DIR == <<"/","t","m","p","/","s","c","o","u","t","_","a","p","m","_","c","o","r","e">>

DigitValue(c) ==
    CASE c = "0" -> 0 [] c = "1" -> 1 [] c = "2" -> 2 [] c = "3" -> 3 [] c = "4" -> 4
      [] c = "5" -> 5 [] c = "6" -> 6 [] c = "7" -> 7 [] c = "8" -> 8 [] c = "9" -> 9
      [] OTHER -> 0

\* the number written by the digits of s
RECURSIVE NumberOf(_)
NumberOf(s) ==
    IF s = <<>> THEN 0 ELSE 10 * NumberOf(SubSeq(s, 1, Len(s) - 1)) + DigitValue(s[Len(s)])

\* the position of the first "." of s, or 0
FirstDot(s) ==
    IF \E i \in 1..Len(s) : s[i] = "."
    THEN CHOOSE i \in 1..Len(s) : s[i] = "." /\ \A j \in 1..(i - 1) : s[j] # "."
    ELSE 0

\* the numbers between the dots of s, in order
RECURSIVE DottedNumbers(_)
DottedNumbers(s) ==
    IF FirstDot(s) = 0 THEN <<NumberOf(s)>>
    ELSE <<NumberOf(SubSeq(s, 1, FirstDot(s) - 1))>>
             \o DottedNumbers(SubSeq(s, FirstDot(s) + 1, Len(s)))

\* major, minor and patch of a version string as semver reads it: a leading
\* "v" is dropped and a missing component counts as 0
ParseVersion(s) ==
    LET body == IF s # <<>> /\ s[1] = "v" THEN Tail(s) ELSE s
        nums == DottedNumbers(body)
    IN  [i \in 1..3 |-> IF i <= Len(nums) THEN nums[i] ELSE 0]

\* semver.lt(a, b) on parsed versions
SemverLt(a, b) ==
    \/ a[1] < b[1]
    \/ a[1] = b[1] /\ a[2] < b[2]
    \/ a[1] = b[1] /\ a[2] = b[2] /\ a[3] < b[3]

\* this.config.socketPath and this.config.coreAgentVersion: read through the
\* resolver, or from the plain object the constructor was given
EngineConfigValue(prop) ==
    IF endpointCfg.kind = "resolver" THEN ProxyGet(node, prop).val
    ELSE IF prop = "socketPath" THEN endpointCfg.socketPath
    ELSE endpointCfg.version

\* the version the constructor builds this.binPath from
ConstructorVersion ==
    LET given == EngineConfigValue("coreAgentVersion")
        version == IF Truthy(given) THEN ToStr(given) ELSE DEFAULT_CORE_AGENT_VERSION
    IN  IF version[1] = "v" THEN Tail(version) ELSE version

\* getDefaultSocketFilePath(): the socket file beside the binary,
\* path.dirname(this.binPath) being <cache dir>/scout_apm_core-v<version>-<triple>
getDefaultSocketFilePath ==
    DEFAULT_CORE_AGENT_DOWNLOAD_CACHE_DIR \o Slash
        \o DEFAULT_CORE_AGENT_NAME \o <<"-", "v">> \o ConstructorVersion \o Dash
        \o generateTriple(host) \o Slash \o DEFAULT_SOCKET_FILE_NAME

\* the socketPath getter: config.socketPath when truthy; else by the version in
\* this.coreAgentVersion, which is unassigned (the read of .raw throws) until
\* downloadAndLaunchAgent() has assigned it from config.coreAgentVersion
socketPath ==
    IF Truthy(EngineConfigValue("socketPath"))
    THEN [threw |-> FALSE, path |-> ToStr(EngineConfigValue("socketPath"))]
    ELSE IF ~endpointCfg.assigned THEN [threw |-> TRUE, path |-> <<>>]
    ELSE IF SemverLt(ParseVersion(ToStr(EngineConfigValue("coreAgentVersion"))),
                     CORE_AGENT_TCP_SOCKET_MIN_VERSION)
    THEN [threw |-> FALSE, path |-> getDefaultSocketFilePath]
    ELSE [threw |-> FALSE, path |-> DefaultTcpEndpoint]

\* getSocketType() on a socket path
getSocketType(path) == IF StartsWith(path, TcpPrefix) THEN "TCP" ELSE "Unix"

\* getSocketPath() on a socket path
getSocketPath(path) == IF getSocketType(path) = "TCP" THEN path ELSE UnixPrefix \o path

\* the socketPath and coreAgentVersion values of a plain configuration object
PlainSocketPaths == {Undefined, Str(<<"/","p",".","s">>), Str(<<"t","c","p",":","/","/","h",":","1">>)}
PlainVersions == {Undefined, Str(<<"1",".","2",".","9">>), Str(<<"v","1",".","3",".","0">>),
                  Str(<<"1",".","1","0",".","0">>)}

\* downloadAndLaunchAgent() assigns this.coreAgentVersion from config.coreAgentVersion, which it requires to be truthy
AssignCoreAgentVersion ==
    /\ ~endpointCfg.assigned
    /\ Truthy(EngineConfigValue("coreAgentVersion"))
    /\ endpointCfg' = [endpointCfg EXCEPT !.assigned = TRUE]
    /\ UNCHANGED <<cfgVars, tripleVars, tracesBesideEndpoint, endpointOp, config, agent, connected, settingUp,
                 setupPc, setupErr, connectResult, downloads, spawned, connects, sent,
                 handlers, globalSet, statsHandle, statsActive, calls, txs, shuts,
                 disconnects, stops, shutdownEvents>>

\* the engine's socket path, socket type and agent address are read
ReadSocketPath ==
    /\ endpointOp' = [called |-> TRUE, assignedAt |-> endpointCfg.assigned,
                      threw |-> socketPath.threw, path |-> socketPath.path,
                      type |-> IF socketPath.threw THEN "" ELSE getSocketType(socketPath.path),
                      url |-> IF socketPath.threw THEN <<>> ELSE getSocketPath(socketPath.path)]
    /\ UNCHANGED <<cfgVars, tripleVars, tracesBesideEndpoint, endpointCfg, config, agent, connected, settingUp,
                 setupPc, setupErr, connectResult, downloads, spawned, connects, sent,
                 handlers, globalSet, statsHandle, statsActive, calls, txs, shuts,
                 disconnects, stops, shutdownEvents>>

\* an engine on the resolver, with the environments and node configurations
\* of the resolver, or on a plain object
InitEndpoint ==
    /\ hasLogFn = FALSE
    /\ host \in CfgHosts
    /\ cfgOp = NoOp
    /\ setsDone = 0
    /\ \/ /\ env \in EnvChoices
          /\ node \in InitNodeChoices
          /\ endpointCfg = NoEndpointCfg
       \/ /\ env = EmptyEnv
          /\ node = EmptyNode
          /\ endpointCfg \in [kind : {"plain"}, socketPath : PlainSocketPaths,
                              version : PlainVersions, assigned : {FALSE}]
    /\ endpointOp = NoEndpointOp
    /\ TripleIdle
    /\ EngineConstructed(DefaultEngineConfig)
    /\ NonBlockingIdle /\ IgnoreIdle /\ SendIdle /\ WireIdle /\ StatsIdle /\ CtxIdle

NextEndpoint ==
    \/ AssignCoreAgentVersion
    \/ ReadSocketPath

SpecEndpoint == InitEndpoint /\ [][NextEndpoint]_vars

-----------------------------------------------------------------------------
(* The Scout engine: transactions and their requests, with every step the
   engine has started being completed *)

\* the steps that need nothing from the embedding program: promise
\* continuations and the sends of a request that is being finished
EngineRequestStep ==
    \/ \E i \in DOMAIN txs : TxSetupSettled(i)
    \/ \E i \in DOMAIN txs : \E cb \in CbKinds : \E shape \in ReqShapes :
           StartRequestAndRun(i, cb, shape)
    \/ \E r \in DOMAIN reqs : \E accepted \in BOOLEAN : FlushStep(r, accepted)

\* calling done() is left to the embedding program and is not forced
SpecRequestFair ==
    /\ InitRequest
    /\ [][NextRequest]_vars
    /\ WF_vars(EngineRequestStep)
    /\ WF_vars(ShutdownChainStep)

-----------------------------------------------------------------------------
(* Scout engine: the current request and span, asynchronous and synchronous *)

\* the most spans the program starts
MaxSpans == 3
\* the most requests started for transactions, automatic ones included
MaxCtxRequests == 2

\* an entry of a context that the context does not define itself: the value
\* is the one of the context it was created in
Inherit == -1

\* asyncNamespace.get(key) in context f; context 0 is no active context, and
\* the result 0 is undefined
RECURSIVE NsGet(_, _)
NsGet(f, key) ==
    IF f = 0 THEN 0
    ELSE IF frames[f][key] # Inherit THEN frames[f][key]
    ELSE NsGet(frames[f].parent, key)

\* asyncNamespace.run(): a context created inside context f
NsRun(f) == [parent |-> f, req |-> Inherit, span |-> Inherit]

\* getCurrentRequest() called in context f
getCurrentRequest(f) ==
    IF NsGet(f, "req") # 0 THEN NsGet(f, "req") ELSE syncCurrentRequest

\* getCurrentSpan() called in context f
getCurrentSpan(f) ==
    IF NsGet(f, "span") # 0 THEN NsGet(f, "span") ELSE syncCurrentSpan

\* the contexts the program can be running in: none, or one of those created
\* so far in which a callback of the program has been called; in the context
\* of an automatic transaction only the engine's own callback is
Contexts ==
    {0} \cup {f \in 1..Len(frames) :
                 \A r \in DOMAIN ctxReqs :
                     ctxReqs[r].frame = f => ctxReqs[r].via = "transaction"}

\* the context the running synchronous callback was entered from
SyncFrame == syncStack[Len(syncStack)].frame

\* parent.startChildSpan(operation) and parent.startChildSpanSync(operation):
\* the child of a request has no parentId, the child of a span has that span
\* as parentId and the span's request as requestId
StartChildSpan(parentKind, parent, via, auto, frame) ==
    [req |-> IF parentKind = "span" THEN spans[parent].req ELSE parent,
     parent |-> IF parentKind = "span" THEN parent ELSE 0,
     open |-> TRUE, via |-> via, auto |-> auto, frame |-> frame]

\* as InstrumentParent, but the current span is not looked at
InstrumentParent_RequestOnly(curSpan, curReq) ==
    IF curReq # 0 THEN [kind |-> "request", id |-> curReq]
    ELSE [kind |-> "none", id |-> 0]

\* the parent instrument() chooses: the current span, else the current request
InstrumentParent(curSpan, curReq) ==
    IF curSpan # 0 THEN [kind |-> "span", id |-> curSpan]
    ELSE IF curReq # 0 THEN [kind |-> "request", id |-> curReq]
    ELSE [kind |-> "none", id |-> 0]

\* as InstrumentSyncParent, but the span and the request of the context are
\* preferred to the synchronous ones
InstrumentSyncParent_AsyncFirst(override, f) ==
    IF override # 0 THEN [kind |-> "request", id |-> override]
    ELSE IF NsGet(f, "span") # 0 THEN [kind |-> "span", id |-> NsGet(f, "span")]
    ELSE IF NsGet(f, "req") # 0 THEN [kind |-> "request", id |-> NsGet(f, "req")]
    ELSE IF syncCurrentSpan # 0 THEN [kind |-> "span", id |-> syncCurrentSpan]
    ELSE IF syncCurrentRequest # 0 THEN [kind |-> "request", id |-> syncCurrentRequest]
    ELSE [kind |-> "none", id |-> 0]

\* the parent instrumentSync() chooses: the override, the synchronous span,
\* the synchronous request, then what getCurrentSpan() and getCurrentRequest()
\* return
InstrumentSyncParent(override, f) ==
    IF override # 0 THEN [kind |-> "request", id |-> override]
    ELSE IF syncCurrentSpan # 0 THEN [kind |-> "span", id |-> syncCurrentSpan]
    ELSE IF syncCurrentRequest # 0 THEN [kind |-> "request", id |-> syncCurrentRequest]
    ELSE IF getCurrentSpan(f) # 0 THEN [kind |-> "span", id |-> getCurrentSpan(f)]
    ELSE IF getCurrentRequest(f) # 0 THEN [kind |-> "request", id |-> getCurrentRequest(f)]
    ELSE [kind |-> "none", id |-> 0]

\* what a call found when it started
CallSite(op, f, override) ==
    [op |-> op, frame |-> f, override |-> override,
     syncSpanAt |-> syncCurrentSpan, syncReqAt |-> syncCurrentRequest,
     spanAt |-> NsGet(f, "span"), reqAt |-> NsGet(f, "req"),
     parentKind |-> "none", parent |-> 0, newReqs |-> {}, newSpans |-> {}, fnRuns |-> 0,
     tagged |-> 0, rethrown |-> FALSE]

\* withAsyncRequestContext(cb), reached from transaction(name, cb) called in context
\* f: a new context, a new request set on it, and cb called in that context
withAsyncRequestContext(f) ==
    /\ syncStack = <<>>
    /\ Len(ctxReqs) < MaxCtxRequests
    /\ frames' = Append(frames, [NsRun(f) EXCEPT !.req = Len(ctxReqs) + 1])
    /\ ctxReqs' = Append(ctxReqs, [via |-> "transaction", state |-> "running",
                                   frame |-> Len(frames) + 1])
    /\ ctxOp' = [CallSite("transaction", f, 0) EXCEPT !.newReqs = {Len(ctxReqs) + 1},
                                                      !.fnRuns = 1]
    /\ UNCHANGED <<cfgVars, tripleVars, tracesBesideCtx, spans, syncCurrentRequest,
                 syncCurrentSpan, syncStack, config, agent, connected, settingUp,
                 setupPc, setupErr, connectResult, downloads, spawned, connects, sent,
                 handlers, globalSet, statsHandle, statsActive, calls, txs, shuts,
                 disconnects, stops, shutdownEvents>>

\* the stop function of request r, bound to the request's context: it clears the
\* request and span entries of that context
RequestStop(r) ==
    /\ frames' = [frames EXCEPT ![ctxReqs[r].frame].req = 0,
                                ![ctxReqs[r].frame].span = 0]
    /\ ctxReqs' = [ctxReqs EXCEPT ![r].state = "stopped"]
    /\ UNCHANGED <<cfgVars, tripleVars, tracesBesideCtx, spans, syncCurrentRequest,
                 syncCurrentSpan, syncStack, ctxOp, config, agent, connected,
                 settingUp, setupPc, setupErr, connectResult, downloads, spawned,
                 connects, sent, handlers, globalSet, statsHandle, statsActive, calls,
                 txs, shuts, disconnects, stops, shutdownEvents>>

\* done() of a transaction the program started, called once
TransactionDone(r) ==
    /\ syncStack = <<>>
    /\ r \in DOMAIN ctxReqs
    /\ ctxReqs[r].via = "transaction"
    /\ ctxReqs[r].state = "running"
    /\ RequestStop(r)

\* instrument(operation, cb) called in context f where neither span nor request is
\* current: a transaction is started around the instrumentation
InstrumentAuto(f) ==
    /\ Len(ctxReqs) < MaxCtxRequests
    /\ Len(spans) < MaxSpans
    /\ frames' = Append(frames, [NsRun(f) EXCEPT !.req = Len(ctxReqs) + 1])
    /\ ctxReqs' = Append(ctxReqs, [via |-> "instrument", state |-> "starting",
                                   frame |-> Len(frames) + 1])
    /\ ctxOp' = [CallSite("instrument", f, 0) EXCEPT !.newReqs = {Len(ctxReqs) + 1}]
    /\ UNCHANGED <<cfgVars, tripleVars, tracesBesideCtx, spans, syncCurrentRequest,
                 syncCurrentSpan, syncStack, config, agent, connected, settingUp,
                 setupPc, setupErr, connectResult, downloads, spawned, connects, sent,
                 handlers, globalSet, statsHandle, statsActive, calls, txs, shuts,
                 disconnects, stops, shutdownEvents>>

\* instrument(operation, cb) called in context f with a current span but no current
\* request: cb runs with a done function that does nothing, and no span starts
InstrumentNothing(f) ==
    /\ ctxOp' = [CallSite("instrument", f, 0) EXCEPT
                    !.spanAt = getCurrentSpan(f), !.reqAt = getCurrentRequest(f),
                    !.parentKind = InstrumentParent(getCurrentSpan(f),
                                                    getCurrentRequest(f)).kind,
                    !.parent = InstrumentParent(getCurrentSpan(f),
                                                getCurrentRequest(f)).id,
                    !.fnRuns = 1]
    /\ UNCHANGED <<cfgVars, tripleVars, tracesBesideCtx, frames, spans, ctxReqs,
                 syncCurrentRequest, syncCurrentSpan, syncStack, config, agent,
                 connected, settingUp, setupPc, setupErr, connectResult, downloads,
                 spawned, connects, sent, handlers, globalSet, statsHandle,
                 statsActive, calls, txs, shuts, disconnects, stops, shutdownEvents>>

\* instrument(operation, cb) called in context f with a parent and a request: a child
\* span of the parent, and a new context holding the request and the span; auto is
\* the request an automatic transaction started for this instrumentation, or 0
InstrumentSpan(f, auto) ==
    /\ Len(spans) < MaxSpans
    /\ LET parent == InstrumentParent(getCurrentSpan(f), getCurrentRequest(f))
       IN  /\ spans' = Append(spans, StartChildSpan(parent.kind, parent.id, "instrument",
                                                    auto, Len(frames) + 1))
           /\ frames' = Append(frames, [NsRun(f) EXCEPT !.req = getCurrentRequest(f),
                                                        !.span = Len(spans) + 1])
           /\ ctxOp' = [CallSite("instrument", f, 0) EXCEPT
                            !.spanAt = getCurrentSpan(f), !.reqAt = getCurrentRequest(f),
                            !.parentKind = parent.kind, !.parent = parent.id,
                            !.newSpans = {Len(spans) + 1}, !.fnRuns = 1]
    /\ ctxReqs' = IF auto = 0 THEN ctxReqs ELSE [ctxReqs EXCEPT ![auto].state = "running"]
    /\ UNCHANGED <<cfgVars, tripleVars, tracesBesideCtx, syncCurrentRequest,
                 syncCurrentSpan, syncStack, config, agent, connected, settingUp,
                 setupPc, setupErr, connectResult, downloads, spawned, connects, sent,
                 handlers, globalSet, statsHandle, statsActive, calls, txs, shuts,
                 disconnects, stops, shutdownEvents>>

\* instrument(operation, cb) called by the program in context f
Instrument(f) ==
    /\ syncStack = <<>>
    /\ IF getCurrentSpan(f) = 0 /\ getCurrentRequest(f) = 0 THEN InstrumentAuto(f)
       ELSE IF getCurrentRequest(f) = 0 THEN InstrumentNothing(f)
       ELSE InstrumentSpan(f, 0)

\* the callback of the automatic transaction of request r: instrument() called
\* again, in the context of the request
InstrumentInTransaction(r) ==
    /\ syncStack = <<>>
    /\ r \in DOMAIN ctxReqs
    /\ ctxReqs[r].via = "instrument"
    /\ ctxReqs[r].state = "starting"
    /\ InstrumentSpan(ctxReqs[r].frame, r)

\* as InstrumentDone, but the done function of an automatic transaction is not called
\* after the span has stopped
InstrumentDone_SpanOnly(s, f) ==
    /\ syncStack = <<>>
    /\ s \in DOMAIN spans
    /\ spans[s].via = "instrument"
    /\ spans[s].open
    /\ spans' = [spans EXCEPT ![s].open = FALSE]
    /\ frames' = IF spans[s].parent # 0
                 THEN [frames EXCEPT ![f].span = spans[s].parent]
                 ELSE [frames EXCEPT ![f].span = 0, ![f].req = 0]
    /\ UNCHANGED <<cfgVars, tripleVars, tracesBesideCtx, ctxReqs, syncCurrentRequest,
                 syncCurrentSpan, syncStack, ctxOp, config, agent, connected,
                 settingUp, setupPc, setupErr, connectResult, downloads, spawned,
                 connects, sent, handlers, globalSet, statsHandle, statsActive, calls,
                 txs, shuts, disconnects, stops, shutdownEvents>>

\* done() of the span s of an instrument(), called in context f: the span stops and its
\* stop function changes the entries of the context it is called in; after the span of
\* an automatic transaction, the transaction's done function is called next
InstrumentDone(s, f) ==
    /\ syncStack = <<>>
    /\ s \in DOMAIN spans
    /\ spans[s].via = "instrument"
    /\ spans[s].open
    /\ spans' = [spans EXCEPT ![s].open = FALSE]
    /\ frames' = IF spans[s].parent # 0
                 THEN [frames EXCEPT ![f].span = spans[s].parent]
                 ELSE [frames EXCEPT ![f].span = 0, ![f].req = 0]
    /\ ctxReqs' = IF spans[s].auto = 0 THEN ctxReqs
                  ELSE [ctxReqs EXCEPT ![spans[s].auto].state = "stopping"]
    /\ UNCHANGED <<cfgVars, tripleVars, tracesBesideCtx, syncCurrentRequest,
                 syncCurrentSpan, syncStack, ctxOp, config, agent, connected,
                 settingUp, setupPc, setupErr, connectResult, downloads, spawned,
                 connects, sent, handlers, globalSet, statsHandle, statsActive, calls,
                 txs, shuts, disconnects, stops, shutdownEvents>>

\* the done function of an automatic transaction, called after the done
\* function of its span
AutoTransactionDone(r) ==
    /\ r \in DOMAIN ctxReqs
    /\ ctxReqs[r].via = "instrument"
    /\ ctxReqs[r].state = "stopping"
    /\ RequestStop(r)

\* instrumentSync(operation, fn, requestOverride) called in context f with no parent to
\* be found: transactionSync() starts a request, makes it the synchronous request, and
\* calls instrumentSync() again, which starts a span under that request and runs fn
InstrumentSyncAuto(f, override) ==
    /\ Len(ctxReqs) < MaxCtxRequests
    /\ Len(spans) < MaxSpans
    /\ ctxReqs' = Append(ctxReqs, [via |-> "transactionSync", state |-> "running",
                                   frame |-> 0])
    /\ syncCurrentRequest' = Len(ctxReqs) + 1
    /\ spans' = Append(spans, StartChildSpan("request", Len(ctxReqs) + 1, "instrumentSync",
                                             Len(ctxReqs) + 1, 0))
    /\ syncCurrentSpan' = Len(spans) + 1
    /\ syncStack' = syncStack \o
                    << [kind |-> "transactionSync", id |-> Len(ctxReqs) + 1, frame |-> f],
                       [kind |-> "instrumentSync", id |-> Len(spans) + 1, frame |-> f] >>
    /\ ctxOp' = [CallSite("instrumentSync", f, override) EXCEPT
                    !.parentKind = "request", !.parent = Len(ctxReqs) + 1,
                    !.newReqs = {Len(ctxReqs) + 1}, !.newSpans = {Len(spans) + 1},
                    !.fnRuns = 1]
    /\ UNCHANGED <<cfgVars, tripleVars, tracesBesideCtx, frames, config, agent,
                 connected, settingUp, setupPc, setupErr, connectResult, downloads,
                 spawned, connects, sent, handlers, globalSet, statsHandle,
                 statsActive, calls, txs, shuts, disconnects, stops, shutdownEvents>>

\* as InstrumentSyncSpan, but the span started under a request override keeps the
\* synchronous span as its parentId
InstrumentSyncSpan_KeepSyncParent(f, override) ==
    /\ Len(spans) < MaxSpans
    /\ LET parent == InstrumentSyncParent(override, f)
       IN  /\ spans' = Append(spans, [StartChildSpan(parent.kind, parent.id,
                                                     "instrumentSync", 0, 0)
                                         EXCEPT !.parent = syncCurrentSpan])
           /\ ctxOp' = [CallSite("instrumentSync", f, override) EXCEPT
                            !.parentKind = parent.kind, !.parent = parent.id,
                            !.newSpans = {Len(spans) + 1}, !.fnRuns = 1]
    /\ syncCurrentSpan' = Len(spans) + 1
    /\ syncStack' = Append(syncStack, [kind |-> "instrumentSync", id |-> Len(spans) + 1,
                                       frame |-> f])
    /\ UNCHANGED <<cfgVars, tripleVars, tracesBesideCtx, frames, ctxReqs,
                 syncCurrentRequest, config, agent, connected, settingUp, setupPc,
                 setupErr, connectResult, downloads, spawned, connects, sent, handlers,
                 globalSet, statsHandle, statsActive, calls, txs, shuts, disconnects,
                 stops, shutdownEvents>>

\* instrumentSync(operation, fn, requestOverride) called in context f with a parent: a
\* child span of the parent becomes the synchronous span, and fn runs
InstrumentSyncSpan(f, override) ==
    /\ Len(spans) < MaxSpans
    /\ LET parent == InstrumentSyncParent(override, f)
       IN  /\ spans' = Append(spans, StartChildSpan(parent.kind, parent.id,
                                                    "instrumentSync", 0, 0))
           /\ ctxOp' = [CallSite("instrumentSync", f, override) EXCEPT
                            !.parentKind = parent.kind, !.parent = parent.id,
                            !.newSpans = {Len(spans) + 1}, !.fnRuns = 1]
    /\ syncCurrentSpan' = Len(spans) + 1
    /\ syncStack' = Append(syncStack, [kind |-> "instrumentSync", id |-> Len(spans) + 1,
                                       frame |-> f])
    /\ UNCHANGED <<cfgVars, tripleVars, tracesBesideCtx, frames, ctxReqs,
                 syncCurrentRequest, config, agent, connected, settingUp, setupPc,
                 setupErr, connectResult, downloads, spawned, connects, sent, handlers,
                 globalSet, statsHandle, statsActive, calls, txs, shuts, disconnects,
                 stops, shutdownEvents>>

\* instrumentSync(operation, fn, requestOverride) called by the program in
\* context f, or by the synchronous callback that is running
InstrumentSync(f, override) ==
    /\ syncStack # <<>> => f = SyncFrame
    /\ IF InstrumentSyncParent(override, f).kind = "none"
       THEN InstrumentSyncAuto(f, override)
       ELSE InstrumentSyncSpan(f, override)

\* the calls that are left once the innermost instrumentSync() is over: the
\* transactionSync() that made the call for an automatic transaction is over
\* with it
SyncStackBelow ==
    IF /\ Len(syncStack) > 1
       /\ syncStack[Len(syncStack) - 1].kind = "transactionSync"
    THEN SubSeq(syncStack, 1, Len(syncStack) - 2)
    ELSE SubSeq(syncStack, 1, Len(syncStack) - 1)

\* the request of the transactionSync() that is over with the innermost
\* instrumentSync(), or 0
SyncAutoRequest ==
    IF /\ Len(syncStack) > 1
       /\ syncStack[Len(syncStack) - 1].kind = "transactionSync"
    THEN syncStack[Len(syncStack) - 1].id
    ELSE 0

\* fn returns to the innermost instrumentSync(): the span stops and the synchronous span
\* is set to null; the transactionSync() of an automatic transaction then stops its
\* request and sets the synchronous request to null
SyncReturn ==
    /\ syncStack # <<>>
    /\ spans' = [spans EXCEPT ![syncStack[Len(syncStack)].id].open = FALSE]
    /\ syncCurrentSpan' = 0
    /\ ctxReqs' = IF SyncAutoRequest = 0 THEN ctxReqs
                  ELSE [ctxReqs EXCEPT ![SyncAutoRequest].state = "stopped"]
    /\ syncCurrentRequest' = IF SyncAutoRequest = 0 THEN syncCurrentRequest ELSE 0
    /\ syncStack' = SyncStackBelow
    /\ UNCHANGED <<cfgVars, tripleVars, tracesBesideCtx, frames, ctxOp, config, agent,
                 connected, settingUp, setupPc, setupErr, connectResult, downloads,
                 spawned, connects, sent, handlers, globalSet, statsHandle,
                 statsActive, calls, txs, shuts, disconnects, stops, shutdownEvents>>

\* fn throws out of the innermost instrumentSync(), and out of the transactionSync() of
\* an automatic transaction: neither has a handler, so the span and the request are left
\* as they are
SyncThrow ==
    /\ syncStack # <<>>
    /\ syncStack' = SyncStackBelow
    /\ UNCHANGED <<cfgVars, tripleVars, tracesBesideCtx, frames, spans, ctxReqs,
                 syncCurrentRequest, syncCurrentSpan, ctxOp, config, agent, connected,
                 settingUp, setupPc, setupErr, connectResult, downloads, spawned,
                 connects, sent, handlers, globalSet, statsHandle, statsActive, calls,
                 txs, shuts, disconnects, stops, shutdownEvents>>

InitContext ==
    /\ ResolverIdle
    /\ TripleIdle
    /\ EngineConstructed(DefaultEngineConfig)
    /\ TraceIdle

NextContext ==
    \/ \E f \in Contexts : withAsyncRequestContext(f)
    \/ \E r \in 1..MaxCtxRequests : TransactionDone(r)
    \/ \E f \in Contexts : Instrument(f)
    \/ \E r \in 1..MaxCtxRequests : InstrumentInTransaction(r)
    \/ \E s \in 1..MaxSpans : \E f \in Contexts \ {0} : InstrumentDone(s, f)
    \/ \E r \in 1..MaxCtxRequests : AutoTransactionDone(r)
    \/ \E f \in Contexts : \E override \in 0..Len(ctxReqs) : InstrumentSync(f, override)
    \/ SyncReturn
    \/ SyncThrow

SpecContext == InitContext /\ [][NextContext]_vars

-----------------------------------------------------------------------------
(* Scout engine: the uncaughtException listener *)

\* an exception nobody caught reaches the listener setup() registered, in context f:
\* onUncaughtExceptionListener(err) adds the error tag to the current request, if there
\* is one, and returns
UncaughtException(f) ==
    /\ handlers > 0
    /\ syncStack = <<>>
    /\ ctxOp' = [CallSite("uncaughtException", f, 0) EXCEPT
                    !.tagged = getCurrentRequest(f),
                    !.rethrown = FALSE]
    /\ UNCHANGED <<cfgVars, tripleVars, tracesBesideCtx, frames, spans, ctxReqs,
                 syncCurrentRequest, syncCurrentSpan, syncStack, config, agent,
                 connected, settingUp, setupPc, setupErr, connectResult, downloads,
                 spawned, connects, sent, handlers, globalSet, statsHandle,
                 statsActive, calls, txs, shuts, disconnects, stops, shutdownEvents>>

InitException ==
    /\ ResolverIdle
    /\ TripleIdle
    /\ EngineSettled(DefaultEngineConfig, "ready")
    /\ NonBlockingIdle /\ IgnoreIdle /\ SendIdle /\ WireIdle /\ EndpointIdle /\ CtxIdle
    /\ timersCreated = 1

NextException ==
    \/ \E f \in Contexts : withAsyncRequestContext(f)
    \/ \E r \in 1..MaxCtxRequests : TransactionDone(r)
    \/ \E f \in Contexts : \E override \in 0..Len(ctxReqs) : InstrumentSync(f, override)
    \/ SyncReturn
    \/ SyncThrow
    \/ \E f \in Contexts : UncaughtException(f)

SpecException == InitException /\ [][NextException]_vars

-----------------------------------------------------------------------------
(* Claims about the configuration resolver *)

Unknown == <<"u","n","k","n","o","w","n">>

\* the value source i yields for prop in the current state
SourceValue(i, prop) == SourceGetConfigValue(node, i, prop, MaxGetDepth).val
DefinedSources(prop) == { i \in 1..Len(SourceNames) : SourceValue(i, prop) # Undefined }
EarliestDefined(prop) == CHOOSE i \in DefinedSources(prop) : \A j \in DefinedSources(prop) : i <= j

\* C1: a get(p) returns the value of the earliest source, in the order Env, Node,
\* Derived, Default, whose value is not undefined (false, "", null count as
\* defined), and undefined when no source defines p.
Thm_C1_GetEarliestDefined ==
    cfgOp.op = "get" =>
        IF DefinedSources(cfgOp.prop) = {}
        THEN cfgOp.val = Undefined
        ELSE cfgOp.val = SourceValue(EarliestDefined(cfgOp.prop), cfgOp.prop)

\* a get answered by Env with the falsy value false although Node holds true
Wit_C1_FalsyEnvWins ==
    /\ cfgOp.op = "get" /\ cfgOp.prop = "monitor"
    /\ cfgOp.val = Bool(FALSE)
    /\ env["SCOUT_MONITOR"] # Undefined
    /\ node["monitor"] = Bool(TRUE)

\* what set(p, v) must leave behind in the sources
SetWritesOnlyNode ==
    /\ node = [cfgOp.before EXCEPT ![cfgOp.prop] = cfgOp.val]
    /\ env = cfgOp.envBefore

\* what get(p) yields after set(p, v): v, unless Env defines p
GetAfterSet ==
    ProxyGet(node, cfgOp.prop).val =
        IF EnvGetConfigValue(cfgOp.prop) # Undefined
        THEN EnvGetConfigValue(cfgOp.prop)
        ELSE cfgOp.val

\* C2 as stated: after set(p, v), get(p) returns v unless Env defines p, for every
\* v, and nothing but the Node value of p has changed.
Orig_C2_SetThenGet == cfgOp.op = "set" => SetWritesOnlyNode /\ GetAfterSet

\* C2 amended: set(p, v) changes only the Node value of p; for v other than
\* undefined get(p) then returns v unless Env defines p; set(p, undefined) leaves
\* p to the other sources.
Thm_C2_SetThenGet ==
    cfgOp.op = "set" =>
        /\ SetWritesOnlyNode
        /\ cfgOp.val # Undefined => GetAfterSet
        /\ cfgOp.val = Undefined =>
              ProxyGet(node, cfgOp.prop).val =
                  IF DefinedSources(cfgOp.prop) = {} THEN Undefined
                  ELSE SourceValue(EarliestDefined(cfgOp.prop), cfgOp.prop)

\* a set of a defined value on a configuration that already held other Node values
Wit_C2_SetSeen ==
    /\ cfgOp.op = "set" /\ cfgOp.val # Undefined
    /\ cfgOp.before # EmptyNode
    /\ cfgOp.before[cfgOp.prop] = Undefined
    /\ EnvGetConfigValue(cfgOp.prop) = Undefined
    /\ ProxyGet(node, cfgOp.prop).val = cfgOp.val

\* the property was supplied by Env, Derived or Default when set() was called
WasReadOnly == SupplyingSource(cfgOp.before, cfgOp.prop) \in {1, 3, 4}

\* C3 as stated: set() on a property supplied by the Derived, Default or Env
\* source fails with NotSupported and leaves every get result unchanged.
Orig_C3_ReadOnlyRejected ==
    (cfgOp.op = "set" /\ WasReadOnly) =>
        /\ cfgOp.result = "NotSupported"
        /\ \A q \in Props : ProxyGet(node, q).val = ProxyGet(cfgOp.before, q).val

\* C3 amended: set() on such a property does not fail: it returns normally and
\* writes the Node source, so that a value other than undefined written over a
\* Derived or Default value is what get() returns next.
Thm_C3_ReadOnlyIsWritten ==
    (cfgOp.op = "set" /\ WasReadOnly) =>
        /\ cfgOp.result = "ok"
        /\ node[cfgOp.prop] = cfgOp.val
        /\ (cfgOp.val # Undefined /\ SupplyingSource(cfgOp.before, cfgOp.prop) \in {3, 4})
              => ProxyGet(node, cfgOp.prop).val = cfgOp.val

\* coreAgentTriple, supplied by the Derived source, overwritten through set()
Wit_C3_DerivedOverwritten ==
    /\ cfgOp.op = "set" /\ cfgOp.prop = "coreAgentTriple"
    /\ SupplyingSource(cfgOp.before, "coreAgentTriple") = 3
    /\ cfgOp.result = "ok"
    /\ ProxyGet(node, "coreAgentTriple").val = Str(<<"b","a","d">>)
    /\ ProxyGet(cfgOp.before, "coreAgentTriple").val # Str(<<"b","a","d">>)

\* C4: every get() returns within the call-stack budget, and the nested get()
\* calls made by the Derived source go at most two levels deep.
Thm_C4_GetTerminates ==
    cfgOp.op = "get" => (cfgOp.val # Diverged /\ cfgOp.depth <= 2)

\* a get of socketPath that went through coreAgentFullName to coreAgentTriple
Wit_C4_TwoLevels ==
    /\ cfgOp.op = "get" /\ cfgOp.prop = "socketPath"
    /\ cfgOp.depth = 2
    /\ SupplyingSource(node, "coreAgentTriple") = 3

\* version.slice(1) when the version starts with "v"
StripV(s) == IF Len(s) > 0 /\ s[1] = "v" THEN SubSeq(s, 2, Len(s)) ELSE s

ResolvedVersion == ToStr(ProxyGet(node, "coreAgentVersion").val)
ResolvedTriple == ProxyGet(node, "coreAgentTriple").val

\* a get of coreAgentFullName that neither Env nor Node answers
DerivedFullNameGet ==
    /\ cfgOp.op = "get" /\ cfgOp.prop = "coreAgentFullName"
    /\ EnvGetConfigValue("coreAgentFullName") = Undefined
    /\ NodeGetConfigValue(node, "coreAgentFullName") = Undefined

\* C5 as stated: the derived full name is "scout_apm_core-" V "-" T with the
\* leading "v" of the version stripped.
Orig_C5_FullNameStripsV ==
    DerivedFullNameGet =>
        cfgOp.val = Str(DEFAULT_CORE_AGENT_NAME \o Dash \o StripV(ResolvedVersion)
                        \o Dash \o ToStr(ResolvedTriple))

\* C5 amended: the derived full name is "scout_apm_core-" V "-" T with V the
\* resolved version exactly as configured (a leading "v" is kept); an invalid
\* triple logs one warning when a logFn was given, and the string is returned.
Thm_C5_FullNameKeepsV ==
    DerivedFullNameGet =>
        /\ cfgOp.val = Str(DEFAULT_CORE_AGENT_NAME \o Dash \o ResolvedVersion
                           \o Dash \o ToStr(ResolvedTriple))
        /\ cfgOp.warns = IF ~isValidTriple(ResolvedTriple) /\ hasLogFn THEN 1 ELSE 0

\* the derived full name built from a "v" version and an invalid triple, with a warning
Wit_C5_InvalidTripleWarned ==
    /\ DerivedFullNameGet
    /\ ~isValidTriple(ResolvedTriple)
    /\ cfgOp.warns = 1
    /\ ResolvedVersion[1] = "v"
    /\ cfgOp.val.t = "string"

-----------------------------------------------------------------------------
(* Claims about the platform detector *)

\* C6 as stated: the generated triple is one of the six valid triples or begins
\* with "unknown-".
Orig_C6_TripleClosedSet ==
    tripleOp.op = "generateTriple" =>
        (tripleOp.out \in PlatformTriple \/ StartsWith(tripleOp.out, Unknown \o Dash))

\* C6 amended: the generated triple is one of the six valid triples, or begins
\* with "unknown-" (unrecognised architecture), or ends with "-unknown"
\* (unrecognised platform); one host never yields two different triples.
Thm_C6_TripleClosedSet ==
    /\ tripleOp.op = "generateTriple" =>
          \/ tripleOp.out \in PlatformTriple
          \/ StartsWith(tripleOp.out, Unknown \o Dash)
          \/ EndsWith(tripleOp.out, Dash \o Unknown)
    /\ Cardinality(generated) <= 1

\* a 64-bit x86 host on a platform the detector does not know
Wit_C6_KnownArchUnknownPlatform ==
    /\ tripleOp.op = "generateTriple"
    /\ host.arch = "x64" /\ host.platform = "win32"
    /\ tripleOp.out = ArchX86_64 \o Dash \o Unknown

-----------------------------------------------------------------------------
(* Claims about the Scout engine: setup *)

Registers == Cardinality({i \in DOMAIN sent : sent[i] = "Register"})

\* how the promise a setup() call returned stands: Promise.resolve(this) is
\* resolved, this.settingUp stands as the shared initialisation stands
CallOutcome(i) ==
    CASE calls[i].ret = "immediate" -> "resolved"
      [] calls[i].ret = "shared" -> settingUp
      [] OTHER -> "threw"

\* C7: however many times setup() or transaction() enter setup, one after the
\* other or while an initialisation is running, at most one core-agent process
\* is spawned and at most one Register message is handed to the agent
Thm_C7_OneSpawnOneRegister ==
    /\ downloads <= 1
    /\ spawned <= 1
    /\ Registers <= 1

Wit_C7_SecondCallNoSecondSpawn ==
    /\ Len(calls) >= 2
    /\ calls[2].agentAt # "present"
    /\ spawned = 1
    /\ Registers = 1

\* C8: a setup() call made while the first initialisation is pending returns the
\* first call's promise, wherever the initialisation stands, also once
\* this.agent is assigned and connect and Register are still to come
Orig_C8_ReentryReturnsFirstPromise ==
    \A i \in DOMAIN calls :
        calls[i].settingUpAt = "pending" => calls[i].ret = "shared"

\* C9: once the promise of setup() has rejected, every later setup() call
\* rejects too
Orig_C9_FailedIsTerminal ==
    \A i \in DOMAIN calls :
        calls[i].settingUpAt = "rejected" => CallOutcome(i) = "rejected"

-----------------------------------------------------------------------------
(* Claims about the Scout engine: transaction after a failed connect *)

SetupFailedOnConnect ==
    /\ connectResult = "failed"
    /\ setupPc = "failed"

TxsAfterConnectFailure ==
    {i \in DOMAIN txs : txs[i].connectResultAt = "failed" /\ txs[i].pc = "done"}

\* C10 as stated: when agent.connect() failed, setup() has rejected with
\* ConnectionFailed and a transaction() made afterwards rejects with
\* NoAgentPresent
Orig_C10_TransactionRejectsNoAgent ==
    /\ SetupFailedOnConnect => settingUp = "rejected" /\ setupErr = "ConnectionFailed"
    /\ \A i \in TxsAfterConnectFailure :
           txs[i].outcome = "rejected" /\ txs[i].err = "NoAgentPresent"

\* C10: when agent.connect() failed, setup() has rejected with ConnectionFailed;
\* a transaction() made afterwards runs its callback once and never rejects with
\* NoAgentPresent: it resolves, unless its inner setup() rejected and the
\* callback itself returned a rejected promise
Thm_C10_TransactionRunsCallback ==
    /\ SetupFailedOnConnect => settingUp = "rejected" /\ setupErr = "ConnectionFailed"
    /\ \A i \in TxsAfterConnectFailure :
           /\ txs[i].cbRuns = 1
           /\ txs[i].err # "NoAgentPresent"
           /\ txs[i].outcome = "resolved" \/ (txs[i].path = "catch" /\ txs[i].cb = "rejects")

Wit_C10_TransactionResolvedAfterFailure ==
    /\ SetupFailedOnConnect
    /\ \E i \in TxsAfterConnectFailure :
           /\ txs[i].awaiting = "immediate"
           /\ txs[i].outcome = "resolved"
           /\ txs[i].cbRuns = 1

-----------------------------------------------------------------------------
(* Claims about the Scout engine: setupNonBlocking *)

-----------------------------------------------------------------------------
(* Claims about the Scout engine: attach mode *)

\* C13: with coreAgentLaunch false nothing is downloaded or spawned; when the
\* probe finds no endpoint the setup promise rejects with InvalidConfiguration,
\* this.agent is never assigned, and neither connect() nor Register is attempted
Thm_C13_AttachProbeFailure ==
    /\ ~config.coreAgentLaunch => downloads = 0 /\ spawned = 0
    /\ setupErr = "InvalidConfiguration" =>
           /\ ~config.coreAgentLaunch
           /\ agent = "undefined"
           /\ connects = 0
           /\ Registers = 0
           /\ setupPc \in {"rejecting", "failed"}
           /\ setupPc = "failed" => settingUp = "rejected"
    /\ (~config.coreAgentLaunch /\ setupPc = "failed" /\ agent = "undefined") =>
           setupErr = "InvalidConfiguration"

Wit_C13_ProbeFoundNothing ==
    /\ ~config.coreAgentLaunch
    /\ settingUp = "rejected"
    /\ setupErr = "InvalidConfiguration"
    /\ agent = "undefined"

-----------------------------------------------------------------------------
(* Claims about the Scout engine: shutdown *)

\* the steps of a shutdown() that ran to its end, in order
ShutdownSteps(i) ==
    (IF shuts[i].tickerAt THEN <<"stopTicker">> ELSE <<>>)
        \o (IF shuts[i].handlerAt THEN <<"removeHandler">> ELSE <<>>)
        \o <<"disconnect">>
        \o (IF config.allowShutdown THEN <<"stopProcess">> ELSE <<>>)
        \o <<"clear", "emit">>

\* the shutdown() calls that found an agent and went on to disconnect it
FoundAgent == {i \in DOMAIN shuts : shuts[i].agentAt = "present"}

\* C14: a shutdown() call that finds an agent, no other shutdown() call
\* overlapping it, stops the ticker, removes the uncaughtException listener,
\* disconnects, asks the process to stop exactly when allowShutdown is set, then
\* clears this.agent and emits Shutdown, in this order; once it has resolved
\* isShutdown() is true and hasAgent() is false
Thm_C14_ShutdownOrder ==
    \A i \in FoundAgent :
        FoundAgent = {i} =>
            /\ StartsWith(ShutdownSteps(i), shuts[i].did)
            /\ shuts[i].outcome = "resolved" =>
                   /\ shuts[i].did = ShutdownSteps(i)
                   /\ agent = "null"
                   /\ shutdownEvents = 1

Wit_C14_FullShutdown ==
    \E i \in FoundAgent :
        /\ shuts[i].outcome = "resolved"
        /\ shuts[i].did =
               <<"stopTicker", "removeHandler", "disconnect", "stopProcess", "clear", "emit">>

\* C15: however many callers call shutdown(), one after the other or
\* overlapping, the agent is disconnected once, Shutdown is emitted once, and a
\* call that finds the engine shut down (this.agent === null) resolves
Orig_C15_ShutdownIdempotent ==
    /\ disconnects <= 1
    /\ shutdownEvents <= 1
    /\ \A i \in DOMAIN shuts : shuts[i].agentAt = "null" => shuts[i].outcome = "resolved"

-----------------------------------------------------------------------------
(* Claims about the Scout engine: ignoresPath *)

SomePrefixOf(path) ==
    ignore.given /\ \E k \in DOMAIN ignore.list : StartsWith(path, ignore.list[k])

\* C18: ignoresPath(p) returns true exactly when some element of config.ignore
\* is a prefix of p; without a list, or with an empty one, it returns false
Thm_C18_IgnoresPathIsPrefixTest ==
    ignoreOp.called =>
        /\ ignoreOp.result <=> SomePrefixOf(ignoreOp.path)
        /\ (~ignore.given \/ ignore.list = <<>>) => ~ignoreOp.result

Wit_C18_SecondPrefixMatches ==
    /\ ignoreOp.called
    /\ ignoreOp.result
    /\ Len(ignore.list) = 2
    /\ ~StartsWith(ignoreOp.path, ignore.list[1])
    /\ Len(ignore.list[2]) = 2

\* C19: ignoresPath(p) emits IgnoredPathDetected once when it returns true,
\* whatever the ignore list holds, and not at all when it returns false
Orig_C19_EmitsWhenTrue ==
    ignoreOp.called =>
        ignoreOp.emits = (IF ignoreOp.result THEN 1 ELSE 0)

-----------------------------------------------------------------------------
(* Claims about the Scout engine: the order of what the agent is handed *)

StartRequestMsgs == {Msg("StartRequest", r) : r \in DOMAIN reqs}

\* C12: whatever the interleaving of setup(), transaction(), instrument() and
\* the statistics timer, the first message handed to the agent is Register and
\* ScoutMetadata is handed to it before any StartRequest
Orig_C12_RegisterFirst ==
    /\ sent # <<>> => sent[1] = "Register"
    /\ \A i \in DOMAIN sent :
           sent[i] \in StartRequestMsgs => \E j \in 1..(i - 1) : sent[j] = "ScoutMetadata"

\* the ways a send fails: no agent, monitoring disabled, the agent rejects
SendErrors == {"Disconnected", "MonitoringDisabled", "SendFailed"}

\* C16: a failure to send never reaches the caller: whatever the agent state
\* (none, monitor disabled, the agent rejecting the message), the promise of a
\* send helper resolves, and a transaction() or instrument() does not throw or
\* reject with a send error; it rejects only with what its callback rejected with
Thm_C16_SendFailuresAbsorbed ==
    /\ sendOp.kind # "none" => sendOp.outcome = "resolved"
    /\ \A i \in DOMAIN txs :
           /\ txs[i].err \notin SendErrors
           /\ txs[i].outcome = "rejected" => txs[i].cb = "rejects" /\ txs[i].err = "CbError"
    /\ \A r \in DOMAIN reqs :
           reqs[r].pc = "finished" /\ txs[reqs[r].tx].cb = "returns"
               => txs[reqs[r].tx].outcome = "resolved"

\* the agent rejected the last message of a request whose transaction resolved
Wit_C16_AgentRejectedSend ==
    /\ sendOp.kind = "FinishRequest"
    /\ sendOp.via = "SendFailed"
    /\ sendOp.outcome = "resolved"
    /\ \E r \in DOMAIN reqs :
           /\ reqs[r].pc = "finished"
           /\ ToString(r) = sendOp.req
           /\ txs[reqs[r].tx].outcome = "resolved"

\* the messages of request r that were handed to the agent
MsgsOf(r) == {j \in DOMAIN sent : \E kind \in SpanAndTagKinds \cup {"StartRequest", "FinishRequest"} :
                                     sent[j] = Msg(kind, r)}

\* C17: a send for an ignored request or span hands nothing to the agent, emits
\* IgnoredRequestProcessingSkipped exactly once and RequestSent never, and
\* resolves; no message of an ignored request is ever handed to the agent
Thm_C17_IgnoredSendsNothing ==
    /\ sendOp.kind # "none" /\ sendOp.ignored =>
           /\ ~sendOp.handed
           /\ sendOp.skipped = 1
           /\ sendOp.requestSent = 0
           /\ sendOp.outcome = "resolved"
    /\ \A r \in DOMAIN reqs : reqs[r].ignored => MsgsOf(r) = {}

\* an ignored request with a span and tags was finished on an engine that would
\* have sent it
Wit_C17_IgnoredRequestFinished ==
    /\ sendOp.kind = "FinishRequest"
    /\ sendOp.ignored
    /\ sendOp.agentAt = "present"
    /\ config.monitor
    /\ \E r \in DOMAIN reqs :
           /\ ToString(r) = sendOp.req
           /\ reqs[r].pc = "finished" /\ reqs[r].span /\ reqs[r].tags

\* the positions in sent of the message kind of request r
Positions(kind, r) == {j \in DOMAIN sent : sent[j] = Msg(kind, r)}

\* C20: for a request r that is not ignored, was started by transaction() and
\* has been finished by done(), on an engine with an agent and monitor true,
\* StartRequest(r) and FinishRequest(r) were each handed to the agent exactly
\* once, StartRequest(r) before and FinishRequest(r) after every span and tag
\* message of r; calling done() again changes nothing
Thm_C20_StartFirstFinishLast ==
    \A r \in DOMAIN reqs :
        ( /\ ~reqs[r].ignored
          /\ reqs[r].pc = "finished"
          /\ txs[reqs[r].tx].op = "transaction"
          /\ agent = "present"
          /\ config.monitor )
        => /\ Cardinality(Positions("StartRequest", r)) = 1
           /\ Cardinality(Positions("FinishRequest", r)) = 1
           /\ \A kind \in SpanAndTagKinds : \A j \in Positions(kind, r) :
                  /\ \A s \in Positions("StartRequest", r) : s < j
                  /\ \A f \in Positions("FinishRequest", r) : j < f
           /\ \A s \in Positions("StartRequest", r) :
                  \A f \in Positions("FinishRequest", r) : s < f

\* a request with a span and tags was sent and done() was called a second time
Wit_C20_TaggedSpanSentDoneTwice ==
    \E r \in DOMAIN reqs :
        /\ ~reqs[r].ignored /\ reqs[r].span /\ reqs[r].tags
        /\ reqs[r].pc = "finished"
        /\ reqs[r].dones = 2
        /\ txs[reqs[r].tx].op = "transaction"
        /\ agent = "present"
        /\ config.monitor
        /\ Positions("TagSpan", r) # {}
        /\ Positions("TagRequest", r) # {}

\* C27: sendThroughAgent() hands the message to the agent only with an agent
\* present and monitor true; otherwise nothing is handed over and the call
\* rejects with NoAgentPresent before setup has created an agent, with
\* Disconnected after shutdown, and with MonitoringDisabled when an agent is
\* present and monitor is false
Orig_C27_RejectionByAgentState ==
    sendOp.kind # "none" /\ ~sendOp.ignored =>
        /\ sendOp.handed <=> (sendOp.agentAt = "present" /\ config.monitor)
        /\ sendOp.agentAt = "undefined" => sendOp.via = "NoAgentPresent"
        /\ sendOp.agentAt = "null" => sendOp.via = "Disconnected"
        /\ sendOp.agentAt = "present" /\ ~config.monitor => sendOp.via = "MonitoringDisabled"

\* how many times msg was handed to the agent
TimesSent(msg) == Cardinality({j \in DOMAIN sent : sent[j] = msg})

\* the steps of setup() after the connect: none of them has run
NothingAfterConnect ==
    /\ TimesSent("Register") = 0
    /\ TimesSent("ScoutMetadata") = 0
    /\ handlers = 0
    /\ ~globalSet
    /\ ~statsHandle

\* C28: with coreAgentLaunch true setup() downloads (disallowDownload being the
\* negation of coreAgentDownload), spawns, connects, sends Register, sends
\* ScoutMetadata, installs the uncaught-exception handler, registers the global
\* instance and starts the statistics ticker, in this order and each at most
\* once; after a failed download, spawn or connect no later step runs
Thm_C28_LaunchSetupOrder ==
    /\ \A o \in OptsDisallowValues : \A d \in CoreAgentDownloadValues :
           DownloaderDisallowDownload(o, d) = (d # "true")
    /\ config.coreAgentLaunch =>
        /\ downloads <= 1 /\ spawned <= 1 /\ connects <= 1 /\ handlers <= 1
        /\ TimesSent("Register") <= 1 /\ TimesSent("ScoutMetadata") <= 1
        \* each step only after the one before it
        /\ spawned = 1 => downloads = 1
        /\ connects = 1 => spawned = 1
        /\ TimesSent("Register") = 1 => connectResult = "ok" /\ sent[1] = "Register"
        /\ TimesSent("ScoutMetadata") = 1 =>
               setupPc \notin {"setRegistration", "sendRegister", "registering", "sendMetadata"}
        /\ handlers = 1 => connectResult = "ok" /\ setupPc \notin {"sendingMetadata", "installHandler"}
        /\ globalSet => setupPc \in {"startStats", "resolving", "ready"}
        /\ statsHandle => globalSet /\ setupPc \in {"resolving", "ready"}
        \* a setup that resolved undisturbed did every step
        /\ settingUp = "resolved" =>
               /\ downloads = 1 /\ spawned = 1 /\ connects = 1 /\ globalSet /\ statsHandle
               /\ shuts = <<>> => handlers = 1
               /\ shuts = <<>> /\ config.monitor => sent = <<"Register", "ScoutMetadata">>
        \* a failure ends the chain
        /\ setupErr = "DownloadFailed" => spawned = 0 /\ connects = 0 /\ NothingAfterConnect
        /\ setupErr = "SpawnFailed" => connects = 0 /\ NothingAfterConnect
        /\ connectResult = "failed" => NothingAfterConnect

\* a launching setup() resolved after sending both messages, and another one
\* is not possible on this engine
Wit_C28_LaunchedAndRegistered ==
    /\ config.coreAgentLaunch /\ config.monitor
    /\ settingUp = "resolved"
    /\ shuts = <<>>
    /\ sent = <<"Register", "ScoutMetadata">>
    /\ Len(calls) = 2

\* the two events of one statistics tick, in the order they are sent
TickEvents == <<"ApplicationEvent#MemoryUsageMB", "ApplicationEvent#CPUUtilizationPercent">>

\* a step in which the timer's callback runs
TickStep == ticks' = ticks + 1

\* C30: a statistics tick that finds an agent sends one MemoryUsageMB event and
\* then one CPUUtilizationPercent event; a tick that finds no agent sends
\* nothing and stops the timer, which never runs again; an engine creates at
\* most one timer
Thm_C30_StatisticsTicks ==
    /\ [][TickStep =>
            /\ statsActive
            /\ IF agent = "present"
               THEN sent' = sent \o TickEvents /\ statsActive'
               ELSE sent' = sent /\ ~statsActive']_vars
    /\ [][statsHandle /\ ~statsActive => ~statsActive']_vars
    /\ [](timersCreated <= 1 /\ (statsActive => statsHandle /\ timersCreated = 1))

\* a tick found the agent gone, after a shutdown() that ran before the timer
\* existed, and stopped the timer
Wit_C30_TickFoundNoAgent ==
    /\ ticks = 1
    /\ statsHandle /\ ~statsActive
    /\ agent = "null"
    /\ Len(shuts) = 1 /\ ~shuts[1].tickerAt
    /\ TimesSent(TickEvents[1]) = 0

\* a socket path is configured: the environment or the node configuration (or
\* the plain object) holds a non-empty one
SocketPathConfigured ==
    IF endpointCfg.kind = "resolver"
    THEN SupplyingSource(node, "socketPath") \in {1, 2} /\ Truthy(ProxyGet(node, "socketPath").val)
    ELSE Truthy(endpointCfg.socketPath)

\* the configured core agent version, the default when none is configured
ConfiguredVersion ==
    LET given == EngineConfigValue("coreAgentVersion")
    IN  ParseVersion(IF Truthy(given) THEN ToStr(given) ELSE DEFAULT_CORE_AGENT_VERSION)

\* C24: the engine's endpoint is the configured socketPath as it is when one
\* is configured; else a Unix socket file path when the configured core agent
\* version is below 1.3.0 and tcp://127.0.0.1:6590 from 1.3.0 on; the socket
\* type is TCP exactly when the endpoint starts with tcp://
Orig_C24_EndpointSelection ==
    endpointOp.called =>
        /\ ~endpointOp.threw
        /\ IF SocketPathConfigured
           THEN endpointOp.path = ToStr(EngineConfigValue("socketPath"))
           ELSE IF SemverLt(ConfiguredVersion, CORE_AGENT_TCP_SOCKET_MIN_VERSION)
           THEN /\ ~StartsWith(endpointOp.path, TcpPrefix)
                /\ EndsWith(endpointOp.path, Slash \o DEFAULT_SOCKET_FILE_NAME)
           ELSE endpointOp.path = DefaultTcpEndpoint
        /\ endpointOp.type = "TCP" <=> StartsWith(endpointOp.path, TcpPrefix)
        /\ endpointOp.type \in {"TCP", "Unix"}

\* request r has been stopped: its FinishRequest has been issued
Stopped(r) == r \in DOMAIN reqs /\ reqs[r].pc = "finished"

\* C25: every request started by transaction() is eventually stopped, when
\* done() is called and also when the callback returns a resolved result
\* without calling done()
Orig_C25_RequestEventuallyStopped ==
    \A r \in 1..MaxTxs :
        [](( /\ r \in DOMAIN reqs
             /\ (reqs[r].dones > 0 \/ txs[reqs[r].tx].cb = "returns") )
           => <>Stopped(r))

-----------------------------------------------------------------------------
(* Claims about the current request and span *)

\* C26: the parentId of every span, started by instrument() or by
\* instrumentSync() in any mix and also after a synchronous callback has
\* thrown, is absent or the id of another span of the same request
Thm_C26_ParentInSameRequest ==
    \A s \in DOMAIN spans :
        \/ spans[s].parent = 0
        \/ /\ spans[s].parent \in DOMAIN spans
           /\ spans[s].parent # s
           /\ spans[spans[s].parent].req = spans[s].req

\* a synchronous callback has thrown in one request, and a span has then been
\* started under the span it left behind while another request is current
Wit_C26_ChildOfSpanLeftByThrow ==
    \E s \in DOMAIN spans :
        /\ spans[s].parent # 0
        /\ spans[spans[s].parent].via = "instrumentSync"
        /\ spans[spans[s].parent].open
        /\ syncStack = <<>>
        /\ ctxOp.newSpans = {s}
        /\ ctxOp.reqAt # 0
        /\ ctxOp.reqAt # spans[s].req

\* the span the last call started, when it started one
NewSpan == CHOOSE s \in ctxOp.newSpans : TRUE

\* C21: a span started by instrument() where a request but no span is current
\* has no parentId and the id of that request; one started where a span is
\* current, as in the callback of an instrument() whose done() has not been
\* called, has that span as parentId and the same request id as that span
Thm_C21_InstrumentParentAndRequest ==
    (ctxOp.op = "instrument" /\ ctxOp.newSpans # {} /\ ctxOp.newReqs = {}) =>
        /\ ctxOp.spanAt = 0 =>
              /\ spans[NewSpan].parent = 0
              /\ spans[NewSpan].req = ctxOp.reqAt
        /\ ctxOp.spanAt # 0 =>
              /\ spans[NewSpan].parent = ctxOp.spanAt
              /\ spans[NewSpan].req = spans[ctxOp.spanAt].req
              /\ (spans[ctxOp.spanAt].req = ctxOp.reqAt => spans[NewSpan].req = ctxOp.reqAt)

\* instrument() has been called in the context of the callback of an
\* instrument() of a transaction, before the done() of that span
Wit_C21_NestedInstrument ==
    /\ ctxOp.op = "instrument"
    /\ ctxOp.newSpans # {}
    /\ spans[NewSpan].parent # 0
    /\ spans[spans[NewSpan].parent].via = "instrument"
    /\ spans[spans[NewSpan].parent].open
    /\ spans[spans[NewSpan].parent].parent = 0
    /\ ctxOp.frame = spans[spans[NewSpan].parent].frame
    /\ ctxReqs[spans[NewSpan].req].via = "transaction"
    /\ ctxReqs[spans[NewSpan].req].state = "running"

\* the spans started for the automatic transaction of request r
AutoSpans(r) == {s \in DOMAIN spans : spans[s].auto = r}

ChildOfSpan(p) ==
    /\ ctxOp.parentKind = "span"
    /\ ctxOp.parent = p
    /\ spans[NewSpan].parent = p
    /\ ctxOp.newReqs = {}

\* the span the last call started is the child of request r
ChildOfRequest(r) ==
    /\ ctxOp.parentKind = "request"
    /\ ctxOp.parent = r
    /\ spans[NewSpan].parent = 0
    /\ spans[NewSpan].req = r

RECURSIVE InnermostOpen(_)
InnermostOpen(s) ==
    IF spans[s].open THEN s
    ELSE IF spans[s].parent = 0 THEN 0
    ELSE InnermostOpen(spans[s].parent)

\* C22 (as stated; the code does not keep to it): getCurrentSpan() is the
\* innermost span still open: inside the callback of an instrumentSync() it is
\* the span of the innermost call that has not returned, and in the context of
\* an instrument() it is that span until it closes, then its parent span if
\* the parent is a span, and absent otherwise
Orig_C22_CurrentSpanIsInnermostOpen ==
    /\ syncStack # <<>> =>
           getCurrentSpan(SyncFrame) = syncStack[Len(syncStack)].id
    /\ syncStack = <<>> =>
           \A s \in DOMAIN spans :
               spans[s].via = "instrument" =>
                   getCurrentSpan(spans[s].frame) = InnermostOpen(s)

-----------------------------------------------------------------------------
(* Claims about errors, shutdown and monitoring *)

\* hasAgent()
hasAgent == agent # "undefined" /\ agent # "null"

\* isShutdown()
isShutdown == agent = "null"

\* C32: a shutdown() called while the engine has never held an agent rejects
\* with NoAgentPresent, calls neither agent.disconnect() nor
\* agent.stopProcess(), emits no Shutdown event and leaves hasAgent() and
\* isShutdown() as they were; the call takes no later step
Thm_C32_ShutdownWithoutAgent ==
    /\ [][(Len(shuts') > Len(shuts) /\ agent = "undefined") =>
             /\ shuts'[Len(shuts')].outcome = "rejected"
             /\ shuts'[Len(shuts')].err = "NoAgentPresent"
             /\ shuts'[Len(shuts')].pc = "done"
             /\ shuts'[Len(shuts')].did = <<>>
             /\ disconnects' = disconnects
             /\ stops' = stops
             /\ shutdownEvents' = shutdownEvents
             /\ hasAgent' = hasAgent
             /\ isShutdown' = isShutdown]_vars
    /\ [](\A i \in DOMAIN shuts :
              shuts[i].agentAt = "undefined" =>
                  /\ shuts[i].pc = "done"
                  /\ shuts[i].outcome = "rejected"
                  /\ shuts[i].did = <<>>)

\* shutdown() has been called while setup() was in progress and had not yet
\* created the agent
Wit_C32_ShutdownBeforeAgent ==
    \E i \in DOMAIN shuts :
        /\ shuts[i].agentAt = "undefined"
        /\ shuts[i].err = "NoAgentPresent"
        /\ settingUp # "unset"

Orig_C39_NothingLeftAfterShutdown ==
    (\E i \in DOMAIN shuts : shuts[i].outcome = "resolved") =>
        /\ ~statsActive
        /\ handlers = 0

\* C37 (as stated; the code does not keep to it): while config.monitor is
\* false nothing is handed to the agent: no registration, no application
\* metadata, no request, span or tag message, and no event of the statistics
\* timer
Orig_C37_NothingSentWithoutMonitor ==
    ~config.monitor => sent = <<>>

\* C33 (as stated; the code does not keep to it): no setup() and no
\* transaction() call throws: a failure on the setup path, the one of attach
\* mode without socketPath and without an established core agent version
\* included, comes back as the rejection of the returned promise
Orig_C33_SetupNeverThrows ==
    /\ \A i \in DOMAIN calls : calls[i].ret # "threw"
    /\ \A i \in DOMAIN txs : txs[i].outcome # "threw"

\* C35 (as stated; the code does not keep to it): syncCurrentSpan refers only
\* to the span of an instrumentSync() that has not exited, and
\* syncCurrentRequest only to the request of a transactionSync() that has not
\* exited, whether their fn returned or threw
Orig_C35_SyncFieldsCleared ==
    /\ syncCurrentSpan # 0 =>
           \E k \in DOMAIN syncStack :
               syncStack[k].kind = "instrumentSync" /\ syncStack[k].id = syncCurrentSpan
    /\ syncCurrentRequest # 0 =>
           \E k \in DOMAIN syncStack :
               syncStack[k].kind = "transactionSync" /\ syncStack[k].id = syncCurrentRequest

\* the request of the transaction whose callback context f was created in, or
\* 0 outside every transaction
RECURSIVE TransactionOf(_)
TransactionOf(f) ==
    IF f = 0 THEN 0
    ELSE IF \E r \in DOMAIN ctxReqs : ctxReqs[r].frame = f
         THEN CHOOSE r \in DOMAIN ctxReqs : ctxReqs[r].frame = f
         ELSE TransactionOf(frames[f].parent)

\* C36 (as stated; the code does not keep to it): an instrument() call made in
\* a context of a transaction whose done() has not been called starts a span of
\* the transaction's request and no further request, also after the done() of
\* an earlier top-level span has run in that context; the transaction is one
\* started outside every other context, and no synchronous span or request is
\* set at the call
Orig_C36_SpansStayInTransaction ==
    ( /\ ctxOp.op = "instrument"
      /\ ctxOp.syncSpanAt = 0
      /\ ctxOp.syncReqAt = 0
      /\ TransactionOf(ctxOp.frame) # 0
      /\ ctxReqs[TransactionOf(ctxOp.frame)].via = "transaction"
      /\ ctxReqs[TransactionOf(ctxOp.frame)].state = "running"
      /\ frames[ctxReqs[TransactionOf(ctxOp.frame)].frame].parent = 0 ) =>
        /\ ctxOp.newReqs = {}
        /\ ctxOp.newSpans # {}
        /\ spans[NewSpan].req = TransactionOf(ctxOp.frame)

\* C31 (as stated; the code does not keep to it): when an exception reaches the
\* uncaughtException listener, the listener tags the current request, if there
\* is one, with error=true and adds no tag otherwise, and it raises the
\* exception again
Orig_C31_TagAndReraise ==
    ctxOp.op = "uncaughtException" =>
        /\ ctxOp.tagged = (IF ctxOp.reqAt # 0 THEN ctxOp.reqAt ELSE ctxOp.syncReqAt)
        /\ ctxOp.rethrown

=============================================================================
